---- MODULE Spec2Model ----
(***************************************************************************)
(* Model of the CA monitor: the Database Service (src/src/db/db_service.py *)
(* over the schema of src/src/db/db_models.py) and the task coordination   *)
(* of the main window (src/src/gui).                                       *)
(*                                                                         *)
(* Conventions.  A text value that is Python None / SQL NULL is the string *)
(* None; a text key missing from a raw dict is Absent; a numeric value     *)
(* that is None / NULL (or whose key is missing: dict.get gives None) is   *)
(* NoneNum.  Dates are day numbers.  Every Database Service method is one  *)
(* action: it runs in one session and either commits or rolls back.        *)
(***************************************************************************)
EXTENDS Integers, Sequences, FiniteSets, TLC

None    == "<None>"
Absent  == "<absent>"
NoneNum == -1

\* ---------------------------------------------------------------- bounds
MaxCaId == 3        \* ca_id values handed out by the serial column
MaxLote == 2        \* records in one raw batch
MaxReglaId == 3     \* regla_id values handed out by the serial column
MaxWorkers == 2     \* workers tracked at one time
MaxDialogos == 2    \* modal dialogs nested at one time
MaxIntervalo == 1   \* largest timer interval of the settings (hours, minutes)
MaxFilas == 2       \* rows of a table

\* ------------------------------------------------------ program constants
UMBRAL_FASE_1          == 5
UMBRAL_FINAL_RELEVANTE == 9
dias_retencion         == 30

\* ------------------------------------------------------------ input sets
Hoy            == 100                    \* datetime.now(), as a day number
FechaAntigua   == 40                     \* closed 60 days ago
FechaReciente  == 90                     \* closed 10 days ago
Publicada      == "Publicada"
Publicada2     == "Publicada - Segundo llamado"
Cerrada        == "Cerrada"
NoEspecificado == "No Especificado"
OrgNoEspecificado == "Organismo No Especificado"
Puntajes       == {4, 5, 9}
Notas          == {"nota"}
CaIds          == 1..MaxCaId

VARIABLES
    licitaciones,   \* rows of ca_licitacion
    seguimientos,   \* rows of ca_seguimiento
    sectores,       \* rows of ca_sector
    organismos,     \* rows of ca_organismo
    reglas,         \* rows of ca_organismo_regla
    seq_ca,         \* last value of the ca_id serial
    seq_regla,      \* last value of the regla_id serial
    last,           \* the last call: its name, arguments, whether it raised to
                    \* its caller, whether its session failed, and its result
    is_task_running,  \* MainWindow.is_task_running
    running_workers,  \* MainWindow.running_workers, with each worker's progress
    last_error,       \* MainWindow.last_error is not None
    dialogos,         \* the modal dialogs open, innermost event loop last
    evento,           \* the last handler the event loop ran, and its outcome
    etl,              \* the EtlService run in progress: its method, its
                      \* position, its locals and how it ended
    tabla,            \* one QTableView: the records it was populated from,
                      \* the cells of its model, the rows hidden, and the
                      \* arguments of the last filter_table_view call
    reporte,          \* the tab report since the export dialog was last
                      \* opened: the navigation page shown and the tab name
                      \* captured then, the options of the task submitted,
                      \* and the sheets its run wrote
    ventana,          \* MainWindow.force_close, whether the window is shown,
                      \* whether a close event was accepted, whether
                      \* app.exec() is running, and the interval in ms of
                      \* each QTimer (0: not active)
    score_engine      \* the keyword and agency rules: the set saved in the
                      \* store and the snapshot the ScoreEngine has loaded

db   == <<licitaciones, seguimientos, sectores, organismos, reglas>>
gui  == <<is_task_running, running_workers, last_error, dialogos, evento>>
fuera_motor == <<gui, ventana, tabla, reporte>>
fuera_etl == <<fuera_motor, score_engine>>      \* what no step of a run touches,
                                                \* the reload of the rules apart
fuera_db  == <<fuera_etl, etl>>                 \* what no DbService call touches
fuera_gui == <<db, seq_ca, seq_regla, last, etl, ventana, tabla, reporte,
               score_engine>>
                                                \* what no task handler touches
vars == <<licitaciones, seguimientos, sectores, organismos, reglas,
          seq_ca, seq_regla, last,
          is_task_running, running_workers, last_error, dialogos, evento, etl,
          ventana, tabla, reporte, score_engine>>

\* --------------------------------------------------------------- helpers
\* str.strip() on the names the inputs can carry.
Strip(s) ==
    CASE s = " a " -> "a"
      [] s = "  "  -> ""
      [] OTHER     -> s

\* dict.get(key, default): default only when the key is missing.
Get(v, default) == IF v = Absent THEN default ELSE v

\* dict.get(key): None when the key is missing.
GetNone(v) == IF v = Absent THEN None ELSE v

\* Python truthiness of an optional string.
Falsy(s) == s = None \/ s = ""

Max(S) == CHOOSE x \in S : \A y \in S : y <= x

\* ---------------------------------------------- DbService, ELT ingestion
\* _get_or_create_organismo_sector, inside the caller's session.
\* raised: nombre_organismo.strip() on None (AttributeError).
get_or_create_organismo_sector(sec, org, nombre_organismo, nombre_sector) ==
    LET ns      == IF Falsy(nombre_sector) THEN NoEspecificado ELSE nombre_sector
        ns_norm == Strip(ns)
    IN  IF nombre_organismo = None
        THEN [raised |-> TRUE, sec |-> sec, org |-> org, organismo_id |-> 0]
        ELSE
        LET no_strip == Strip(nombre_organismo)
            found_s  == {s \in sec : s.nombre = ns_norm}
            sid      == IF found_s # {} THEN (CHOOSE s \in found_s : TRUE).sector_id
                        ELSE Cardinality(sec) + 1
            sec2     == IF found_s # {} THEN sec
                        ELSE sec \cup {[sector_id |-> sid, nombre |-> ns_norm]}
            no_norm  == IF no_strip = "" THEN OrgNoEspecificado ELSE no_strip
            found_o  == {o \in org : o.nombre = no_norm}
            oid      == IF found_o # {} THEN (CHOOSE o \in found_o : TRUE).organismo_id
                        ELSE Cardinality(org) + 1
            org2     == IF found_o # {} THEN org
                        ELSE org \cup {[organismo_id |-> oid, nombre |-> no_norm,
                                        sector_id |-> sid]}
        IN  [raised |-> FALSE, sec |-> sec2, org |-> org2, organismo_id |-> oid]

\* The portal code of a raw record: item.get("codigo", item.get("id")).
CodigoDe(item) == IF item.codigo # Absent THEN item.codigo ELSE GetNone(item.id)

\* The skip test of the loop (lines 77-82): no code, or a code already seen
\* in this batch.
Omitir_soloSinCodigo(codigo, codigos_procesados) == Falsy(codigo)

Omitir(codigo, codigos_procesados) ==
    Falsy(codigo) \/ codigo \in codigos_procesados

\* The stored row after the update branch (lines 98-103).
LicitacionActualizada_reiniciaPuntaje(old, item) ==
    [old EXCEPT
       !.proveedores_cotizando = item.cantidad_provedores_cotizando,
       !.estado_ca_texto = GetNone(item.estado),
       !.fecha_cierre = item.fecha_cierre,
       !.estado_convocatoria =
           IF item.estado_convocatoria # NoneNum
           THEN item.estado_convocatoria ELSE @,
       !.puntuacion_final = 0]

\* An update branch that also takes the record's title and clears the
\* description.
LicitacionActualizada_conTitulo(old, item) ==
    [old EXCEPT
       !.proveedores_cotizando = item.cantidad_provedores_cotizando,
       !.estado_ca_texto = GetNone(item.estado),
       !.fecha_cierre = item.fecha_cierre,
       !.estado_convocatoria =
           IF item.estado_convocatoria # NoneNum
           THEN item.estado_convocatoria ELSE @,
       !.nombre = GetNone(item.nombre),
       !.descripcion = None]

LicitacionActualizada(old, item) ==
    [old EXCEPT
       !.proveedores_cotizando = item.cantidad_provedores_cotizando,
       !.estado_ca_texto = GetNone(item.estado),
       !.fecha_cierre = item.fecha_cierre,
       !.estado_convocatoria =
           IF item.estado_convocatoria # NoneNum
           THEN item.estado_convocatoria ELSE @]

\* The row of the insert branch (lines 107-118).
NuevaLicitacion(ca_id, codigo, item, organismo_id) ==
    [ca_id |-> ca_id,
     codigo_ca |-> codigo,
     fecha_cierre |-> item.fecha_cierre,
     proveedores_cotizando |-> item.cantidad_provedores_cotizando,
     estado_ca_texto |-> GetNone(item.estado),
     estado_convocatoria |-> item.estado_convocatoria,
     organismo_id |-> organismo_id,
     descripcion |-> None,
     puntuacion_final |-> 0,
     nombre |-> GetNone(item.nombre),
     monto_clp |-> item.monto_disponible_CLP,
     fecha_publicacion |-> item.fecha_publicacion,
     productos_solicitados |-> None,
     direccion_entrega |-> None,
     fecha_cierre_segundo_llamado |-> NoneNum]

\* One iteration of the loop of insertar_o_actualizar_licitaciones_raw over
\* the session state t (the uncommitted rows and the loop's locals).
ProcesarItem(t, item) ==
    LET codigo == CodigoDe(item)
    IN  IF Omitir(codigo, t.codigos_procesados)
        THEN [t EXCEPT !.omitidos_duplicados = @ + 1]
        ELSE
        LET t1  == [t EXCEPT !.codigos_procesados = @ \cup {codigo}]
            r   == get_or_create_organismo_sector(
                       t.sec, t.org,
                       Get(item.organismo, NoEspecificado),
                       Get(item.unidad, NoEspecificado))
            ex  == {l \in t.lic : l.codigo_ca = codigo}
        IN  IF r.raised THEN [t1 EXCEPT !.raised = TRUE]
            ELSE IF ex # {}
            THEN LET old == CHOOSE l \in ex : TRUE
                 IN  [t1 EXCEPT !.sec = r.sec, !.org = r.org,
                                !.lic = (@ \ {old}) \cup
                                            {LicitacionActualizada(old, item)},
                                !.actualizaciones = @ + 1]
            ELSE [t1 EXCEPT !.sec = r.sec, !.org = r.org,
                            !.lic = @ \cup {NuevaLicitacion(t.seq + 1, codigo, item,
                                                            r.organismo_id)},
                            !.seq = @ + 1,
                            !.nuevos_inserts = @ + 1]

\* The loop: the records in order, stopping at the first one that raises.
RECURSIVE ProcesarLote(_, _)
ProcesarLote(t, compras) ==
    IF compras = <<>> \/ t.raised THEN t
    ELSE ProcesarLote(ProcesarItem(t, Head(compras)), Tail(compras))

\* The session of insertar_o_actualizar_licitaciones_raw before commit.
Sesion(compras) ==
    ProcesarLote([lic |-> licitaciones, sec |-> sectores, org |-> organismos,
                  seq |-> seq_ca, raised |-> FALSE,
                  codigos_procesados |-> {}, nuevos_inserts |-> 0,
                  actualizaciones |-> 0, omitidos_duplicados |-> 0],
                 compras)

\* A session that commits what it wrote before the exception.
insertar_o_actualizar_licitaciones_raw_sinRollback(compras) ==
    \E t \in {Sesion(compras)} :
        /\ t.seq <= MaxCaId
        /\ licitaciones' = t.lic
        /\ sectores' = t.sec
        /\ organismos' = t.org
        /\ seq_ca' = t.seq
        /\ last' = [op |-> "insertar_raw", args |-> compras,
                    raised |-> t.raised, fallo |-> t.raised,
                    res |-> <<t.nuevos_inserts, t.actualizaciones,
                              t.omitidos_duplicados>>]
        /\ UNCHANGED <<seguimientos, reglas, seq_regla>>

\* insertar_o_actualizar_licitaciones_raw(compras): commit, or rollback and
\* re-raise.  The serial is not rolled back.
insertar_o_actualizar_licitaciones_raw(compras) ==
    \E t \in {Sesion(compras)} :
        /\ t.seq <= MaxCaId
        /\ IF t.raised
           THEN UNCHANGED <<licitaciones, sectores, organismos>>
           ELSE /\ licitaciones' = t.lic
                /\ sectores' = t.sec
                /\ organismos' = t.org
        /\ seq_ca' = t.seq
        /\ last' = [op |-> "insertar_raw", args |-> compras,
                    raised |-> t.raised, fallo |-> t.raised,
                    res |-> <<t.nuevos_inserts, t.actualizaciones,
                              t.omitidos_duplicados>>]
        /\ UNCHANGED <<seguimientos, reglas, seq_regla>>

\* actualizar_puntajes_fase_1_en_lote(actualizaciones): a bulk update by
\* primary key; actualizaciones maps ca_id to the new score.
actualizar_puntajes_fase_1_en_lote(actualizaciones) ==
    /\ licitaciones' =
           {IF l.ca_id \in DOMAIN actualizaciones
            THEN [l EXCEPT !.puntuacion_final = actualizaciones[l.ca_id]]
            ELSE l : l \in licitaciones}
    /\ last' = [op |-> "actualizar_puntajes", args |-> actualizaciones,
                raised |-> FALSE, fallo |-> FALSE, res |-> <<>>]
    /\ UNCHANGED <<seguimientos, sectores, organismos, reglas, seq_ca, seq_regla>>

\* ------------------------------------------------ DbService, maintenance
\* The WHERE clause of the DELETE of limpiar_registros_antiguos, in SQL's
\* three-valued logic: a row is deleted only when every condition is TRUE,
\* and a comparison or NOT IN on a NULL column is not TRUE.
CumpleLimpieza(l, fecha_limite) ==
    /\ l.fecha_cierre # NoneNum /\ l.fecha_cierre < fecha_limite
    /\ l.estado_ca_texto # None /\ l.estado_ca_texto \notin {Publicada, Publicada2}
    /\ (l.estado_convocatoria = NoneNum \/ l.estado_convocatoria # 2)
    /\ l.ca_id \notin {s.ca_id : s \in {x \in seguimientos : x.es_favorito}}

\* A DELETE on ca_licitacion alone, the tracking rows left in place.
limpiar_registros_antiguos_sinCascada(dias) ==
    LET fecha_limite == Hoy - dias
        borradas     == {l \in licitaciones : CumpleLimpieza(l, fecha_limite)}
    IN  /\ licitaciones' = licitaciones \ borradas
        /\ last' = [op |-> "limpiar", args |-> <<dias>>, raised |-> FALSE,
                    fallo |-> FALSE,
                    res |-> <<Cardinality(borradas)>>]
        /\ UNCHANGED <<seguimientos, sectores, organismos, reglas, seq_ca,
                       seq_regla>>

\* limpiar_registros_antiguos(dias): one DELETE; ca_seguimiento rows go
\* with their opportunity (ForeignKey ondelete="CASCADE").
limpiar_registros_antiguos(dias) ==
    LET fecha_limite == Hoy - dias
        borradas     == {l \in licitaciones : CumpleLimpieza(l, fecha_limite)}
    IN  /\ licitaciones' = licitaciones \ borradas
        /\ seguimientos' = {s \in seguimientos :
                               s.ca_id \notin {l.ca_id : l \in borradas}}
        /\ last' = [op |-> "limpiar", args |-> <<dias>>, raised |-> FALSE,
                    fallo |-> FALSE,
                    res |-> <<Cardinality(borradas)>>]
        /\ UNCHANGED <<sectores, organismos, reglas, seq_ca, seq_regla>>

\* ------------------------------------------ DbService, failing sessions
\* The path of a method whose session raises inside its try block (the
\* connection is lost, the statement is rejected): the except clause logs
\* and rolls back; relanza tells whether it then re-raises.
SesionFallida(op, args, relanza, res) ==
    /\ last' = [op |-> op, args |-> args, raised |-> relanza, fallo |-> TRUE,
                res |-> res]
    /\ UNCHANGED <<licitaciones, seguimientos, sectores, organismos, reglas,
                   seq_ca, seq_regla>>

\* actualizar_puntajes_fase_1_en_lote: an empty list returns before any
\* session is opened; the except clause ends with raise.
actualizar_puntajes_fase_1_en_lote_error(actualizaciones) ==
    /\ DOMAIN actualizaciones # {}
    /\ SesionFallida("actualizar_puntajes", actualizaciones, TRUE, <<>>)

\* eliminar_ca_definitivamente: the except clause ends with raise.
eliminar_ca_definitivamente_error(ca_id) ==
    SesionFallida("eliminar_ca", <<ca_id>>, TRUE, <<FALSE>>)

\* limpiar_registros_antiguos: the except clause logs and rolls back and does
\* not raise; the method returns registros_eliminados, which is 0 when
\* execute raised and the DELETE's rowcount when commit raised.
limpiar_registros_antiguos_error(dias, en_commit) ==
    LET borradas == {l \in licitaciones : CumpleLimpieza(l, Hoy - dias)}
    IN  SesionFallida("limpiar", <<dias>>, FALSE,
                      <<IF en_commit THEN Cardinality(borradas) ELSE 0>>)

\* ------------------------------------------------- DbService, read views
obtener_datos_tab1_candidatas ==
    {l \in licitaciones : l.puntuacion_final >= UMBRAL_FASE_1}

obtener_datos_tab2_relevantes_estricto ==
    {l \in licitaciones : l.puntuacion_final > UMBRAL_FINAL_RELEVANTE}

obtener_datos_tab2_relevantes ==
    {l \in licitaciones : l.puntuacion_final >= UMBRAL_FINAL_RELEVANTE}

obtener_datos_tab3_seguimiento ==
    {l \in licitaciones :
        \E s \in seguimientos : s.ca_id = l.ca_id /\ s.es_favorito}

obtener_datos_tab4_ofertadas ==
    {l \in licitaciones :
        \E s \in seguimientos : s.ca_id = l.ca_id /\ s.es_ofertada}

\* --------------------------------------------- DbService, tracking rows
\* session.get(CaSeguimiento, ca_id): the set holding the row, or {}.
SeguimientoDe(ca_id) == {s \in seguimientos : s.ca_id = ca_id}

ExisteCa(ca_id) == \E l \in licitaciones : l.ca_id = ca_id

\* An optional flag is {} for None and {b} for the boolean b.
\* The existing row after lines 329-334 of _gestionar_seguimiento.
SeguimientoActualizado_sinForzar(s, es_favorito, es_ofertada) ==
    LET s1 == IF es_favorito # {}
              THEN [s EXCEPT !.es_favorito = TRUE \in es_favorito] ELSE s
    IN  IF es_ofertada # {}
        THEN [s1 EXCEPT !.es_ofertada = TRUE \in es_ofertada] ELSE s1

SeguimientoActualizado(s, es_favorito, es_ofertada) ==
    LET s1 == IF es_favorito # {}
              THEN [s EXCEPT !.es_favorito = TRUE \in es_favorito]
              ELSE s
    IN  IF es_ofertada # {}
        THEN [s1 EXCEPT !.es_ofertada = TRUE \in es_ofertada,
                        !.es_favorito = IF TRUE \in es_ofertada THEN TRUE ELSE @]
        ELSE s1

\* The row _gestionar_seguimiento creates (lines 337-341), when one of the
\* flags is true: es_favorito = es_favorito or es_ofertada.
NuevoSeguimiento(ca_id, es_favorito, es_ofertada) ==
    [ca_id |-> ca_id,
     es_favorito |-> TRUE \in es_favorito \/ TRUE \in es_ofertada,
     es_ofertada |-> TRUE \in es_ofertada,
     notas |-> None]

\* _gestionar_seguimiento(ca_id, es_favorito, es_ofertada).  Inserting a row
\* whose ca_id has no opportunity violates the foreign key: rollback and
\* re-raise.
gestionar_seguimiento(nombre, ca_id, es_favorito, es_ofertada) ==
    LET seg  == SeguimientoDe(ca_id)
        args == <<ca_id, es_favorito, es_ofertada>>
    IN  /\ IF seg # {}
           THEN LET s == CHOOSE x \in seg : TRUE
                IN  /\ seguimientos' = (seguimientos \ {s}) \cup
                            {SeguimientoActualizado(s, es_favorito, es_ofertada)}
                    /\ last' = [op |-> nombre, args |-> args,
                                raised |-> FALSE, fallo |-> FALSE,
                                res |-> <<"actualizado">>]
           ELSE IF TRUE \in es_favorito \/ TRUE \in es_ofertada
           THEN IF ExisteCa(ca_id)
                THEN /\ seguimientos' = seguimientos \cup
                            {NuevoSeguimiento(ca_id, es_favorito, es_ofertada)}
                     /\ last' = [op |-> nombre, args |-> args,
                                 raised |-> FALSE, fallo |-> FALSE,
                                res |-> <<"creado">>]
                ELSE /\ UNCHANGED seguimientos
                     /\ last' = [op |-> nombre, args |-> args,
                                 raised |-> TRUE, fallo |-> TRUE,
                                res |-> <<"fk">>]
           ELSE /\ UNCHANGED seguimientos
                /\ last' = [op |-> nombre, args |-> args,
                            raised |-> FALSE, fallo |-> FALSE,
                                res |-> <<"nada">>]
        /\ UNCHANGED <<licitaciones, sectores, organismos, reglas, seq_ca, seq_regla>>

gestionar_favorito(ca_id, es_favorito) ==
    gestionar_seguimiento("gestionar_favorito", ca_id, {es_favorito}, {})

gestionar_ofertada(ca_id, es_ofertada) ==
    gestionar_seguimiento("gestionar_ofertada", ca_id, {}, {es_ofertada})

actualizar_nota_seguimiento(ca_id, nueva_nota) ==
    LET seg == SeguimientoDe(ca_id)
    IN  /\ IF seg # {}
           THEN LET s == CHOOSE x \in seg : TRUE
                IN  /\ seguimientos' = (seguimientos \ {s}) \cup
                                          {[s EXCEPT !.notas = nueva_nota]}
                    /\ last' = [op |-> "actualizar_nota", args |-> <<ca_id, nueva_nota>>,
                                raised |-> FALSE, fallo |-> FALSE,
                                res |-> <<"actualizado">>]
           ELSE IF ExisteCa(ca_id)
           THEN /\ seguimientos' = seguimientos \cup
                       {[ca_id |-> ca_id, es_favorito |-> FALSE,
                         es_ofertada |-> FALSE, notas |-> nueva_nota]}
                /\ last' = [op |-> "actualizar_nota", args |-> <<ca_id, nueva_nota>>,
                            raised |-> FALSE, fallo |-> FALSE,
                                res |-> <<"creado">>]
           ELSE /\ UNCHANGED seguimientos
                /\ last' = [op |-> "actualizar_nota", args |-> <<ca_id, nueva_nota>>,
                            raised |-> TRUE, fallo |-> TRUE,
                                res |-> <<"fk">>]
        /\ UNCHANGED <<licitaciones, sectores, organismos, reglas, seq_ca, seq_regla>>

\* eliminar_ca_definitivamente(ca_id): session.delete cascades to the
\* tracking row (cascade="all, delete-orphan").
eliminar_ca_definitivamente(ca_id) ==
    /\ licitaciones' = {l \in licitaciones : l.ca_id # ca_id}
    /\ seguimientos' = IF ExisteCa(ca_id)
                       THEN {s \in seguimientos : s.ca_id # ca_id}
                       ELSE seguimientos
    /\ last' = [op |-> "eliminar_ca", args |-> <<ca_id>>, raised |-> FALSE,
                fallo |-> FALSE,
                res |-> <<ExisteCa(ca_id)>>]
    /\ UNCHANGED <<sectores, organismos, reglas, seq_ca, seq_regla>>

\* ------------------------------------------------ DbService, agency rules
PRIORITARIO == "prioritario"
NO_DESEADO  == "no_deseado"

ReglaDe(organismo_id) == {r \in reglas : r.organismo_id = organismo_id}

ExisteOrganismo(organismo_id) ==
    \E o \in organismos : o.organismo_id = organismo_id

\* The row set_organismo_regla writes when the agency has a rule already.
ReglaActualizada(regla, tipo, puntos) ==
    [regla EXCEPT !.tipo = tipo, !.puntos = puntos]

\* The rows after set_organismo_regla's select-then-write (lines 446-458).
ReglasTrasSet_siempreInserta(organismo_id, tipo, puntos) ==
    reglas \cup {[regla_id |-> seq_regla + 1, organismo_id |-> organismo_id,
                  tipo |-> tipo, puntos |-> puntos]}

ReglasTrasSet(organismo_id, tipo, puntos) ==
    LET ex == ReglaDe(organismo_id)
    IN  IF ex # {}
        THEN LET regla == CHOOSE r \in ex : TRUE
             IN  (reglas \ {regla}) \cup {ReglaActualizada(regla, tipo, puntos)}
        ELSE reglas \cup {[regla_id |-> seq_regla + 1,
                           organismo_id |-> organismo_id,
                           tipo |-> tipo, puntos |-> puntos]}

\* The point value set_organismo_regla goes on with (lines 439-440): None
\* for no_deseado.
PuntosNormalizados_sinNormalizar(tipo, puntos) == puntos

PuntosNormalizados(tipo, puntos) ==
    IF tipo = NO_DESEADO THEN NoneNum ELSE puntos

\* set_organismo_regla(organismo_id, tipo, puntos).  ValueError before any
\* session for prioritario without points; a rule for an agency that does
\* not exist violates the foreign key (rollback and re-raise).
set_organismo_regla(organismo_id, tipo, puntos) ==
    LET p    == PuntosNormalizados(tipo, puntos)
        ex   == ReglaDe(organismo_id)
        args == <<organismo_id, tipo, puntos>>
    IN  /\ IF tipo = PRIORITARIO /\ p = NoneNum
           THEN /\ UNCHANGED <<reglas, seq_regla>>
                /\ last' = [op |-> "set_regla", args |-> args,
                            raised |-> TRUE, fallo |-> FALSE,
                            res |-> <<"ValueError">>]
           ELSE IF ex = {} /\ ~ExisteOrganismo(organismo_id)
           THEN /\ seq_regla < MaxReglaId
                /\ UNCHANGED reglas
                /\ seq_regla' = seq_regla + 1
                /\ last' = [op |-> "set_regla", args |-> args,
                            raised |-> TRUE, fallo |-> TRUE,
                                res |-> <<"fk">>]
           ELSE /\ seq_regla < MaxReglaId
                /\ reglas' = ReglasTrasSet(organismo_id, tipo, p)
                /\ seq_regla' = IF reglas' = reglas \/ ex # {} THEN seq_regla
                                ELSE seq_regla + 1
                /\ last' = [op |-> "set_regla", args |-> args, raised |-> FALSE,
                            fallo |-> FALSE,
                            res |-> <<IF ex # {} THEN "actualizada" ELSE "creada">>]
        /\ UNCHANGED <<licitaciones, seguimientos, sectores, organismos, seq_ca>>

delete_organismo_regla(organismo_id) ==
    /\ reglas' = reglas \ ReglaDe(organismo_id)
    /\ last' = [op |-> "delete_regla", args |-> <<organismo_id>>, raised |-> FALSE,
                fallo |-> FALSE,
                res |-> <<ReglaDe(organismo_id) # {}>>]
    /\ UNCHANGED <<licitaciones, seguimientos, sectores, organismos, seq_ca, seq_regla>>

\* ===================================================== the raw records
\* A raw listing record, as the scraper hands it to the upsert.
Item(codigo, id, organismo, unidad, estado, fecha_cierre, prov, conv) ==
    [codigo |-> codigo, id |-> id, organismo |-> organismo, unidad |-> unidad,
     estado |-> estado, fecha_cierre |-> fecha_cierre,
     cantidad_provedores_cotizando |-> prov, estado_convocatoria |-> conv,
     nombre |-> "t1", monto_disponible_CLP |-> 1000, fecha_publicacion |-> 80]

\* The same record listed again by the portal under another title, amount
\* and publication date.
Relistado(item) ==
    [item EXCEPT !.nombre = "t2", !.monto_disponible_CLP = 2000,
                 !.fecha_publicacion = 85]

Codigos == {"c1", "c2"}

\* Records of the curation specification: one listing per portal code.
ItemsCuracion ==
    {Item(c, Absent, "a", "s", Publicada, FechaReciente, 1, NoneNum) : c \in Codigos}

\* Records of the retention specification: for code c1 every status, date
\* and convocation state the cleanup distinguishes; for code c2 the record
\* of an opportunity closed 60 days ago ("Cerrada", no convocation state).
ItemsLimpieza ==
    {Item("c1", Absent, "a", "s", e, f, 1, v) :
        e \in {Absent, Publicada, Publicada2, Cerrada},
        f \in {FechaAntigua, FechaReciente}, v \in {NoneNum, 1, 2}}
    \cup {Item("c2", Absent, "a", "s", Cerrada, FechaAntigua, 1, NoneNum)}

\* Records of the ingestion specification: code c1 listed in second call,
\* c1 listed again with every mutable field changed and no convocation
\* state, a record whose code is under "id" (another agency, no unit), a
\* record with no code, and a record of c2 whose agency name is None.
ItemsUpsert ==
    {Item("c1", Absent, "a", "s", Publicada2, FechaReciente, 1, 2),
     Item("c1", Absent, "a", "s", Cerrada, FechaAntigua, 3, NoneNum),
     Item(Absent, "c2", "b", Absent, Publicada, FechaReciente, 1, 1),
     Item(Absent, Absent, "a", "s", Publicada, FechaReciente, 1, 1),
     Item("c2", Absent, None, "s", Publicada, FechaReciente, 1, 1)}

\* The batches of at most MaxLote records.
RECURSIVE LotesDe(_, _)
LotesDe(items, n) ==
    IF n = 0 THEN {<<>>}
    ELSE LET menores == LotesDe(items, n - 1)
         IN  menores \cup {Append(l, i) : l \in {m \in menores : Len(m) = n - 1},
                                          i \in items}

\* All maps from a set of stored ca_id to new scores.
ActualizacionesCon(puntajes) ==
    UNION {[ids -> puntajes] : ids \in SUBSET {l.ca_id : l \in licitaciones}}

Actualizaciones == ActualizacionesCon(Puntajes)

\* ================================================================ EtlService
\* The six pipeline failures of src.utils.exceptions that EtlService imports.
ExcepcionesPipeline ==
    {"ScrapingFase1Error", "DatabaseLoadError", "DatabaseTransformError",
     "ScrapingFase2Error", "RecalculoError", "ScraperHealthError"}

\* Listing records of the pipeline: two portal codes, c2 closing first.
ItemsEtl ==
    {Item("c1", Absent, "a", "s", Publicada, FechaReciente, 1, 1),
     Item("c2", Absent, "a", "s", Publicada, FechaAntigua, 1, NoneNum)}

\* The ScoreEngine holds a snapshot of the keyword and agency rules and
\* scores with it; a score is a function of the snapshot and of the record.
\* The rules as a whole are one of two rulesets: under r1 record c1 scores
\* UMBRAL_FINAL_RELEVANTE and c2 just UMBRAL_FASE_1, under r2 record c1 is
\* from a no_deseado agency (a negative score) and c2 scores
\* UMBRAL_FINAL_RELEVANTE.
Reglamentos == {"r1", "r2"}
PuntajeNegativo == 0 - 5

\* The engine is constructed over the stored rules (it loads them then).
MotorInicial == [guardadas |-> "r1", cargadas |-> "r1"]

\* score_engine.recargar_reglas(): the snapshot becomes the stored rules.
recargar_reglas(motor) == [motor EXCEPT !.cargadas = motor.guardadas]

\* score_engine.calcular_puntuacion_fase_1(item_raw): item_raw is built
\* from the row's title, status and agency, which differ with its code.
calcular_puntuacion_fase_1(cargadas, codigo_ca) ==
    IF cargadas = "r1"
    THEN IF codigo_ca = "c1" THEN UMBRAL_FINAL_RELEVANTE ELSE UMBRAL_FASE_1
    ELSE IF codigo_ca = "c1" THEN PuntajeNegativo ELSE UMBRAL_FINAL_RELEVANTE

\* score_engine.calcular_puntuacion_fase_2(datos_ficha): points for the
\* product keywords found in the description of the fiche.
calcular_puntuacion_fase_2(cargadas, datos_ficha) ==
    IF datos_ficha.descripcion = Absent THEN 0 ELSE 3

\* What scrape_ficha_detalle_api can return besides None: a fiche with a
\* description that reports a second call, and one with neither key.
Fichas ==
    {[descripcion |-> "d", estado_convocatoria |-> 2,
      productos_solicitados |-> "p", direccion_entrega |-> "e",
      fecha_cierre_p2 |-> 95],
     [descripcion |-> Absent, estado_convocatoria |-> NoneNum,
      productos_solicitados |-> Absent, direccion_entrega |-> Absent,
      fecha_cierre_p2 |-> NoneNum]}

\* No run: the state before the first call.
\* emitidos: the values the step just taken passed to emit_percent, in
\* order; navegador: "", "abierto" or "cerrado"; paginas: the pages opened
\* in it; pedidas: the codes passed to scrape_ficha_detalle_api so far;
\* iteracion: how the last iteration of the detail loop went.
EtlEnReposo ==
    [op |-> "", pc |-> "reposo", datos |-> <<>>, candidatas |-> <<>>, i |-> 0,
     ligadas |-> {}, exitosas |-> 0, salida |-> "", emitidos |-> <<>>,
     navegador |-> "", paginas |-> 0, pedidas |-> <<>>, iteracion |-> ""]

\* The run has left the method: salida is "return" or the class of the
\* exception that escapes to the caller.
Termina(salida) ==
    [EtlEnReposo EXCEPT !.op = etl.op, !.pc = "fin", !.salida = salida]

\* The finally clause of the detail phase: it formats the locals exitosas
\* and total, so it raises UnboundLocalError, in place of whatever was
\* leaving the try statement, when one of them was never assigned.
FinallyResumen(ligadas, salida) ==
    IF {"exitosas", "total"} \subseteq ligadas THEN salida
    ELSE "UnboundLocalError"

\* The candidate query without its condition on the description.
obtener_candidatas_para_fase_2_conDescripcion ==
    {c \in [1..Cardinality({l \in licitaciones :
                               l.puntuacion_final >= UMBRAL_FASE_1}) ->
               {l \in licitaciones : l.puntuacion_final >= UMBRAL_FASE_1}] :
        \A j, k \in DOMAIN c : j < k =>
            /\ c[j] # c[k]
            /\ c[j].fecha_cierre <= c[k].fecha_cierre}

\* The rows of a query in any order.
EnCualquierOrden(filas) ==
    {c \in [1..Cardinality(filas) -> filas] :
        \A j, k \in DOMAIN c : j < k => c[j] # c[k]}

\* The rows of a query in the orders that ORDER BY fecha_cierre ASC allows.
Ordenadas(filas) ==
    {c \in [1..Cardinality(filas) -> filas] :
        /\ \A j, k \in DOMAIN c : j < k =>
               /\ c[j] # c[k]
               /\ c[j].fecha_cierre <= c[k].fecha_cierre}

obtener_candidatas_para_fase_2 ==
    Ordenadas({l \in licitaciones :
                  /\ l.puntuacion_final >= UMBRAL_FASE_1
                  /\ l.descripcion = None})

\* A merge that treats a missing row as an error of the session.
actualizar_ca_con_fase_2_exige(codigo_ca, datos_fase_2, puntuacion_total) ==
    LET ex == {l \in licitaciones : l.codigo_ca = codigo_ca}
    IN  /\ licitaciones' =
               {IF l \in ex
                THEN [l EXCEPT
                        !.descripcion = GetNone(datos_fase_2.descripcion),
                        !.productos_solicitados =
                            GetNone(datos_fase_2.productos_solicitados),
                        !.direccion_entrega =
                            GetNone(datos_fase_2.direccion_entrega),
                        !.puntuacion_final = puntuacion_total,
                        !.fecha_cierre_segundo_llamado =
                            datos_fase_2.fecha_cierre_p2,
                        !.estado_convocatoria =
                            IF datos_fase_2.estado_convocatoria # NoneNum
                            THEN datos_fase_2.estado_convocatoria ELSE @]
                ELSE l : l \in licitaciones}
        /\ last' = [op |-> "actualizar_fase_2",
                    args |-> <<codigo_ca, datos_fase_2, puntuacion_total>>,
                    raised |-> ex = {}, fallo |-> ex = {}, res |-> <<ex # {}>>]
        /\ UNCHANGED <<seguimientos, sectores, organismos, reglas, seq_ca, seq_regla>>

\* A merge that adds puntuacion_total to the stored score instead of
\* replacing it.
actualizar_ca_con_fase_2_acumula(codigo_ca, datos_fase_2, puntuacion_total) ==
    LET ex == {l \in licitaciones : l.codigo_ca = codigo_ca}
    IN  /\ licitaciones' =
               {IF l \in ex
                THEN [l EXCEPT
                        !.descripcion = GetNone(datos_fase_2.descripcion),
                        !.productos_solicitados =
                            GetNone(datos_fase_2.productos_solicitados),
                        !.direccion_entrega =
                            GetNone(datos_fase_2.direccion_entrega),
                        !.puntuacion_final = @ + puntuacion_total,
                        !.fecha_cierre_segundo_llamado =
                            datos_fase_2.fecha_cierre_p2]
                ELSE l : l \in licitaciones}
        /\ last' = [op |-> "actualizar_fase_2",
                    args |-> <<codigo_ca, datos_fase_2, puntuacion_total>>,
                    raised |-> FALSE, fallo |-> FALSE, res |-> <<ex # {}>>]
        /\ UNCHANGED <<seguimientos, sectores, organismos, reglas, seq_ca, seq_regla>>

\* actualizar_ca_con_fase_2(codigo_ca, datos_fase_2, puntuacion_total): the
\* merge of a fiche; a code that is not stored returns without writing.
actualizar_ca_con_fase_2(codigo_ca, datos_fase_2, puntuacion_total) ==
    LET ex == {l \in licitaciones : l.codigo_ca = codigo_ca}
    IN  /\ licitaciones' =
               {IF l \in ex
                THEN [l EXCEPT
                        !.descripcion = GetNone(datos_fase_2.descripcion),
                        !.productos_solicitados =
                            GetNone(datos_fase_2.productos_solicitados),
                        !.direccion_entrega =
                            GetNone(datos_fase_2.direccion_entrega),
                        !.puntuacion_final = puntuacion_total,
                        !.fecha_cierre_segundo_llamado =
                            datos_fase_2.fecha_cierre_p2,
                        !.estado_convocatoria =
                            IF datos_fase_2.estado_convocatoria # NoneNum
                            THEN datos_fase_2.estado_convocatoria ELSE @]
                ELSE l : l \in licitaciones}
        /\ last' = [op |-> "actualizar_fase_2",
                    args |-> <<codigo_ca, datos_fase_2, puntuacion_total>>,
                    raised |-> FALSE, fallo |-> FALSE, res |-> <<ex # {}>>]
        /\ UNCHANGED <<seguimientos, sectores, organismos, reglas, seq_ca, seq_regla>>

actualizar_ca_con_fase_2_error(codigo_ca, datos_fase_2, puntuacion_total) ==
    SesionFallida("actualizar_fase_2",
                  <<codigo_ca, datos_fase_2, puntuacion_total>>, TRUE, <<FALSE>>)

\* A step of a run that makes no DbService write.
sin_escritura ==
    <<licitaciones, seguimientos, sectores, organismos, reglas, seq_ca,
      seq_regla, last>>

\* The caller (a Worker) calls one of the four entry points; the run has
\* made no DbService call yet.
SinLlamada ==
    [op |-> "init", args |-> <<>>, raised |-> FALSE, fallo |-> FALSE, res |-> <<>>]

EtlLlamada(op, pc) ==
    /\ etl.pc \in {"reposo", "fin"}
    /\ etl' = [EtlEnReposo EXCEPT !.op = op, !.pc = pc]
    /\ last' = SinLlamada
    /\ UNCHANGED <<licitaciones, seguimientos, sectores, organismos, reglas,
                   seq_ca, seq_regla>>

\* The values a scoring loop over total rows passes to emit_percent: it
\* reports at i = 0, at every hundredth row and at the last row (the model
\* has fewer than a hundred rows), base + int(((i + 1) / total) * ancho).
PorcentajesDeLote(total, base, ancho) ==
    IF total = 0 THEN <<>>
    ELSE IF total = 1 THEN <<base + ancho>>
    ELSE <<base + (ancho \div total), base + ancho>>

\* A step 1 that goes on to the load with whatever the scrape returned.
etl_extract_sinRetorno(falla, datos_crudos) ==
    /\ etl.pc = "extract"
    /\ etl' = IF falla
              THEN [Termina("ScrapingFase1Error") EXCEPT !.emitidos = <<5>>]
              ELSE [etl EXCEPT !.pc = "load", !.datos = datos_crudos,
                               !.emitidos = <<5, 20>>]
    /\ UNCHANGED sin_escritura

\* run_etl_live_to_db, step 1: emit_percent(5), then the listing scrape
\* raises, or returns the records datos_crudos; no records: emit_percent(100)
\* and return; otherwise emit_percent(20).
etl_extract(falla, datos_crudos) ==
    /\ etl.pc = "extract"
    /\ etl' = IF falla
              THEN [Termina("ScrapingFase1Error") EXCEPT !.emitidos = <<5>>]
              ELSE IF datos_crudos = <<>>
              THEN [Termina("return") EXCEPT !.emitidos = <<5, 100>>]
              ELSE [etl EXCEPT !.pc = "load", !.datos = datos_crudos,
                               !.emitidos = <<5, 20>>]
    /\ UNCHANGED sin_escritura

\* Step 2: the raw upsert; whatever it raises becomes DatabaseLoadError.
etl_load(falla) ==
    /\ etl.pc = "load"
    /\ IF falla
       THEN SesionFallida("insertar_raw", etl.datos, TRUE, <<0, 0, 0>>)
       ELSE insertar_o_actualizar_licitaciones_raw(etl.datos)
    /\ etl' = IF last'.raised THEN Termina("DatabaseLoadError")
              ELSE [etl EXCEPT !.pc = "transform", !.datos = <<>>,
                               !.emitidos = <<30>>]

\* The list both scoring loops build: for every row the query returned,
\* its ca_id and the Phase-1 score under the loaded rules.
lista_para_actualizar(licitaciones_a_puntuar, cargadas) ==
    [ca_id \in {l.ca_id : l \in licitaciones_a_puntuar} |->
        calcular_puntuacion_fase_1(cargadas,
            (CHOOSE l \in licitaciones_a_puntuar : l.ca_id = ca_id).codigo_ca)]

\* obtener_todas_candidatas_fase_1_para_recalculo: the query has no WHERE
\* clause, it returns every stored row.
obtener_todas_candidatas_fase_1_para_recalculo == licitaciones

\* _transform_puntajes_fase_1 and the body of run_recalculo_total_fase_1
\* after the reload: every row the query returns gets the score the Score
\* Engine computes under the rules cargadas, in one bulk update; no rows,
\* no update.  falla: "consulta", "guardado" or "".
PuntuarTodas(falla, cargadas) ==
    LET a == lista_para_actualizar(
                 obtener_todas_candidatas_fase_1_para_recalculo, cargadas)
    IN  CASE falla = "consulta" -> UNCHANGED sin_escritura
          [] falla = "guardado" ->
                /\ licitaciones # {}
                /\ actualizar_puntajes_fase_1_en_lote_error(a)
          [] OTHER ->
                IF licitaciones = {} THEN UNCHANGED sin_escritura
                ELSE actualizar_puntajes_fase_1_en_lote(a)

\* Step 3: any failure of the scoring becomes DatabaseTransformError.  The
\* scoring loop is handed emit_percent and reports its own 0..100 scale;
\* emit_percent(40) follows its return.
etl_transform(falla) ==
    /\ etl.pc = "transform"
    /\ PuntuarTodas(falla, score_engine.cargadas)
    /\ LET lote == IF falla = "consulta" THEN <<>>
                   ELSE PorcentajesDeLote(Cardinality(licitaciones), 0, 100)
       IN  etl' = IF falla # ""
                  THEN [Termina("DatabaseTransformError") EXCEPT !.emitidos = lote]
                  ELSE [etl EXCEPT !.pc = "candidatas",
                                   !.emitidos = lote \o <<40>>]

\* Step 4: the candidate query; its except clause ends with `raise e`, so
\* the driver's exception leaves the method as it is.
etl_candidatas(falla) ==
    /\ etl.pc = "candidatas"
    /\ \E c \in obtener_candidatas_para_fase_2 :
          etl' = IF falla THEN Termina("OperationalError")
                 ELSE IF c = <<>>
                 THEN [Termina("return") EXCEPT !.emitidos = <<100>>]
                 ELSE [etl EXCEPT !.pc = "navegador", !.candidatas = c,
                                  !.emitidos = <<>>]
    /\ UNCHANGED sin_escritura

\* The rows of a query in the orders that ORDER BY puntuacion_final DESC
\* allows.
OrdenadasPorPuntaje(filas) ==
    {c \in [1..Cardinality(filas) -> filas] :
        /\ \A j, k \in DOMAIN c : j < k =>
               /\ c[j] # c[k]
               /\ c[j].puntuacion_final >= c[k].puntuacion_final}

\* The three lists concatenated, as the nested loops of run_fase2_update
\* visit them.
cas_de_las_vistas(cas_tab2, cas_tab3, cas_tab4) ==
    cas_tab2 \o cas_tab3 \o cas_tab4

\* A list that keeps every row of every view.
cas_a_procesar_sinMapa(cas_tab2, cas_tab3, cas_tab4) ==
    cas_tab2 \o cas_tab3 \o cas_tab4

\* cas_a_procesar: the values of the dict that the nested loops fill keyed
\* by ca_id; a key keeps the position of its first insertion.
cas_a_procesar(cas_tab2, cas_tab3, cas_tab4) ==
    LET todas == cas_de_las_vistas(cas_tab2, cas_tab3, cas_tab4)
        primera(j) == \A k \in 1..(j - 1) : todas[k].ca_id # todas[j].ca_id
        F[j \in 0..Len(todas)] ==
            IF j = 0 THEN <<>>
            ELSE IF primera(j) THEN Append(F[j - 1], todas[j]) ELSE F[j - 1]
    IN  F[Len(todas)]

\* run_fase2_update, first part of the try block: the three view queries,
\* emit_percent(10), the union by ca_id, total, and emit_percent(100) and
\* the return when there is nothing to do; otherwise emit_percent(20).
fase2_consulta(falla) ==
    /\ etl.pc = "consulta"
    /\ \E cas_tab2 \in OrdenadasPorPuntaje(obtener_datos_tab2_relevantes),
          cas_tab3 \in Ordenadas(obtener_datos_tab3_seguimiento),
          cas_tab4 \in Ordenadas(obtener_datos_tab4_ofertadas) :
          LET c == cas_a_procesar(cas_tab2, cas_tab3, cas_tab4)
          IN  etl' = IF falla
                     THEN Termina(FinallyResumen(etl.ligadas, "ScrapingFase2Error"))
                     ELSE IF c = <<>>
                     THEN [Termina(FinallyResumen({"total"}, "return"))
                              EXCEPT !.emitidos = <<10, 100>>]
                     ELSE [etl EXCEPT !.pc = "navegador", !.candidatas = c,
                                      !.ligadas = {"total"},
                                      !.emitidos = <<10, 20>>]
    /\ UNCHANGED sin_escritura

\* Both detail phases: sync_playwright and chromium.launch, one context and
\* one page, then the assignments before the loop (exitosas, and in
\* run_etl_live_to_db total).
etl_navegador(falla) ==
    /\ etl.pc = "navegador"
    /\ etl' = IF falla
              THEN Termina(FinallyResumen(etl.ligadas, "ScrapingFase2Error"))
              ELSE [etl EXCEPT !.pc = "bucle", !.i = 1, !.exitosas = 0,
                               !.ligadas = {"exitosas", "total"},
                               !.navegador = "abierto", !.paginas = 1,
                               !.emitidos = <<>>]
    /\ UNCHANGED sin_escritura

\* percent of iteration i (counted from 1) of a detail loop.
PorcentajeDeFicha(op, i, total) ==
    IF op = "run_fase2_update" THEN 20 + ((i * 75) \div total)
    ELSE 40 + ((i * 55) \div total)

\* An exception leaves the with block of the detail phase: the Playwright
\* context manager stops the driver, which ends the browser.
TerminaBucle(salida) ==
    [Termina(FinallyResumen(etl.ligadas, salida)) EXCEPT !.navegador = "cerrado"]

\* The next candidate of the loop.
Siguiente(i) == i + 1

\* One iteration of a detail loop.  run_fase2_update computes the Phase-1
\* score afresh (negative: the item is skipped), run_etl_live_to_db takes
\* the score of the row the candidate query returned; scrape tells whether
\* the detail scrape raises ("excepcion"), returns None or returns the
\* fiche ficha; falla_bd is a failing merge.
etl_bucle(scrape, ficha, falla_bd) ==
    /\ etl.pc = "bucle"
    /\ etl.i <= Len(etl.candidatas)
    /\ LET licitacion == etl.candidatas[etl.i]
           codigo_ca == licitacion.codigo_ca
           percent == PorcentajeDeFicha(etl.op, etl.i, Len(etl.candidatas))
           puntos_fase_1 ==
               calcular_puntuacion_fase_1(score_engine.cargadas, codigo_ca)
           puntos_fase_2 ==
               calcular_puntuacion_fase_2(score_engine.cargadas, ficha)
           puntuacion_total ==
               IF etl.op = "run_fase2_update" THEN puntos_fase_1 + puntos_fase_2
               ELSE licitacion.puntuacion_final + puntos_fase_2
           sigue == [etl EXCEPT !.i = Siguiente(@), !.emitidos = <<percent>>]
           pedida == [sigue EXCEPT !.pedidas = Append(@, codigo_ca)]
       IN  IF etl.op = "run_fase2_update" /\ puntos_fase_1 < 0
           THEN /\ etl' = [sigue EXCEPT !.iteracion = "omitida"]
                /\ UNCHANGED sin_escritura
           ELSE IF scrape = "excepcion"
           THEN /\ etl' = [TerminaBucle("ScrapingFase2Error")
                              EXCEPT !.emitidos = <<percent>>]
                /\ UNCHANGED sin_escritura
           ELSE IF scrape = "None"
           THEN /\ etl' = [pedida EXCEPT !.iteracion = "sin_datos"]
                /\ UNCHANGED sin_escritura
           ELSE IF falla_bd
           THEN /\ actualizar_ca_con_fase_2_error(codigo_ca, ficha,
                                                  puntuacion_total)
                /\ etl' = [TerminaBucle("ScrapingFase2Error")
                              EXCEPT !.emitidos = <<percent>>]
           ELSE /\ actualizar_ca_con_fase_2(codigo_ca, ficha, puntuacion_total)
                /\ etl' = [pedida EXCEPT !.exitosas = @ + 1,
                                         !.iteracion = "fusionada"]

\* The end of a loop that fails when no fiche was merged and leaves the
\* browser open.
etl_bucle_fin_sinExito ==
    /\ etl.pc = "bucle"
    /\ etl.i > Len(etl.candidatas)
    /\ etl' = IF etl.exitosas = 0
              THEN [Termina("ScrapingFase2Error") EXCEPT
                       !.navegador = "abierto", !.iteracion = etl.iteracion]
              ELSE [TerminaBucle("return") EXCEPT
                       !.emitidos = <<100>>, !.iteracion = etl.iteracion]
    /\ UNCHANGED sin_escritura

\* The loop is over: context.close() and browser.close(), the finally
\* clause, and emit_percent(100).
etl_bucle_fin ==
    /\ etl.pc = "bucle"
    /\ etl.i > Len(etl.candidatas)
    /\ etl' = [TerminaBucle("return") EXCEPT
                  !.emitidos = <<100>>, !.iteracion = etl.iteracion]
    /\ UNCHANGED sin_escritura

\* A recalculation that scores with the rules the engine already holds.
run_recalculo_total_fase_1_sinRecarga(falla) ==
    /\ etl.pc = "recalculo"
    /\ score_engine' = score_engine
    /\ PuntuarTodas("", score_engine.cargadas)
    /\ etl' = [Termina("return") EXCEPT !.emitidos = <<10, 100>>]

\* run_recalculo_total_fase_1: the rules are reloaded, then every row is
\* scored; any failure becomes RecalculoError.  falla: "reglas" (the
\* reload raises), "consulta", "guardado" or "".
run_recalculo_total_fase_1(falla) ==
    /\ etl.pc = "recalculo"
    /\ score_engine' = IF falla = "reglas" THEN score_engine
                       ELSE recargar_reglas(score_engine)
    /\ IF falla = "reglas" THEN UNCHANGED sin_escritura
       ELSE PuntuarTodas(falla, score_engine'.cargadas)
    /\ LET total == Cardinality(licitaciones)
           lote == PorcentajesDeLote(total, 20, 70)
       IN  etl' = CASE falla = "reglas" ->
                         [Termina("RecalculoError") EXCEPT !.emitidos = <<>>]
                    [] falla = "consulta" ->
                         [Termina("RecalculoError") EXCEPT !.emitidos = <<10>>]
                    [] falla = "guardado" ->
                         [Termina("RecalculoError") EXCEPT
                             !.emitidos = <<10, 20>> \o lote]
                    [] OTHER ->
                         [Termina("return") EXCEPT !.emitidos =
                             IF total = 0 THEN <<10, 100>>
                             ELSE <<10, 20>> \o lote \o <<100>>]

\* run_health_check: the raise statements of the try block raise
\* ScraperHealthError and the except clause wraps every other exception in
\* one; the run writes nothing.
ResultadosSalud ==
    {"ok", "listado_falla", "listado_vacio", "falta_campo_fase1",
     "navegador_falla", "ficha_invalida", "falta_campo_fase2"}

run_health_check(resultado) ==
    /\ etl.pc = "salud"
    /\ etl' = Termina(IF resultado = "ok" THEN "return" ELSE "ScraperHealthError")
    /\ UNCHANGED sin_escritura

\* ------------------------------------------- MainWindow, background tasks
\* A modal dialog (QMessageBox.question, QMessageBox.critical) runs a nested
\* event loop: timers and queued worker signals are delivered while it is
\* open, clicks on the main window are not.  A handler is otherwise atomic.
\* An exception raised inside a slot ends that slot only.
Corriendo        == "corriendo"            \* Worker.run is executing the task
ErrorPendiente   == "error_pendiente"      \* error and finished are queued
FinishedPendiente == "finished_pendiente"  \* finished is queued

EnVuelo == {w \in running_workers : w.estado = Corriendo}

NuevoWorkerId ==
    CHOOSE i \in 1..MaxWorkers : \A w \in running_workers : w.id # i

\* start_task: set_ui_busy(True) of MainWindow, last_error = None, the
\* worker appended to running_workers and handed to the thread pool.
\* on_progress tells whether the caller passed progress callbacks.
start_task(task, on_finished, on_progress) ==
    /\ Cardinality(running_workers) < MaxWorkers
    /\ is_task_running' = TRUE
    /\ last_error' = FALSE
    /\ running_workers' = running_workers \cup
           {[id |-> NuevoWorkerId, task |-> task,
             on_finished |-> on_finished, needs_progress |-> on_progress,
             estado |-> Corriendo]}

\* on_run_recalculate_thread up to its confirmation dialog.
on_run_recalculate_thread ==
    /\ dialogos = <<>>
    /\ IF is_task_running
       THEN /\ evento' = [op |-> "on_run_recalculate_thread", res |-> "ocupado"]
            /\ UNCHANGED dialogos
       ELSE /\ Len(dialogos) < MaxDialogos
            /\ dialogos' = Append(dialogos, "confirmar_recalculo")
            /\ evento' = [op |-> "on_run_recalculate_thread", res |-> "dialogo"]
    /\ UNCHANGED <<is_task_running, running_workers, last_error>>

\* on_run_recalculate_thread from the answer to its confirmation dialog.
on_run_recalculate_thread_respuesta(si) ==
    /\ dialogos # <<>>
    /\ dialogos[Len(dialogos)] = "confirmar_recalculo"
    /\ dialogos' = SubSeq(dialogos, 1, Len(dialogos) - 1)
    /\ IF si
       THEN /\ start_task("run_recalculo_total_fase_1",
                          "on_recalculate_finished", TRUE)
            /\ evento' = [op |-> "on_run_recalculate_thread", res |-> "enviado"]
       ELSE /\ evento' = [op |-> "on_run_recalculate_thread", res |-> "cancelado"]
            /\ UNCHANGED <<is_task_running, running_workers, last_error>>

\* _run_context_menu_action for a tracking action of the context menu.
run_context_menu_action(task) ==
    /\ dialogos = <<>>
    /\ IF is_task_running
       THEN /\ evento' = [op |-> "_run_context_menu_action", res |-> "ocupado"]
            /\ UNCHANGED <<is_task_running, running_workers, last_error>>
       ELSE /\ start_task(task, "on_load_data_thread", FALSE)
            /\ evento' = [op |-> "_run_context_menu_action", res |-> "enviado"]
    /\ UNCHANGED dialogos

\* The slot of a QTimer: skip when the busy flag is set, submit otherwise.
TimerAuto(nombre, task) ==
    /\ IF is_task_running
       THEN /\ evento' = [op |-> nombre, res |-> "omitido"]
            /\ UNCHANGED <<is_task_running, running_workers, last_error>>
       ELSE /\ start_task(task, "on_auto_task_finished", TRUE)
            /\ evento' = [op |-> nombre, res |-> "enviado"]
    /\ UNCHANGED dialogos

on_start_full_scraping_auto ==
    TimerAuto("on_start_full_scraping_auto", "run_etl_live_to_db")

on_run_fase2_update_thread_auto ==
    TimerAuto("on_run_fase2_update_thread_auto", "run_fase2_update")

\* What the callable of a worker does: it returns None, returns a value, or
\* raises.
Resultados == {"None", "valor", "excepcion"}

\* The signals Worker.run emits, in order: the progress the task reports
\* through the injected callbacks, result for a value other than None, error
\* for an exception, and finished from the finally clause.
SenalesDeRun_sinFinally(needs_progress, progreso, resultado) ==
    (IF needs_progress /\ progreso THEN <<"progress">> ELSE <<>>)
    \o (CASE resultado = "valor"     -> <<"result", "finished">>
          [] resultado = "excepcion" -> <<"error">>
          [] OTHER                   -> <<"finished">>)

SenalesDeRun(needs_progress, progreso, resultado) ==
    (IF needs_progress /\ progreso THEN <<"progress">> ELSE <<>>)
    \o (CASE resultado = "valor"     -> <<"result">>
          [] resultado = "excepcion" -> <<"error">>
          [] OTHER                   -> <<>>)
    \o <<"finished">>

\* Worker.run in its pool thread: the task returns or raises; the signals
\* are queued to the main thread.
Worker_run(w, progreso, resultado) ==
    /\ w \in EnVuelo
    /\ running_workers' = (running_workers \ {w}) \cup
           {[w EXCEPT !.estado = IF resultado = "excepcion" THEN ErrorPendiente
                                  ELSE FinishedPendiente]}
    /\ evento' = [op |-> "Worker.run", res |-> resultado, worker |-> w.id,
                  senales |-> SenalesDeRun(w.needs_progress, progreso, resultado)]
    /\ UNCHANGED <<is_task_running, last_error, dialogos>>

\* on_task_error, up to its modal QMessageBox.critical.
on_task_error(w) ==
    /\ w \in running_workers
    /\ w.estado = ErrorPendiente
    /\ Len(dialogos) < MaxDialogos
    /\ last_error' = TRUE
    /\ dialogos' = Append(dialogos, "critical")
    /\ running_workers' = (running_workers \ {w}) \cup
           {[w EXCEPT !.estado = FinishedPendiente]}
    /\ evento' = [op |-> "on_task_error", res |-> "dialogo"]
    /\ UNCHANGED is_task_running

\* The user closes the QMessageBox.critical on top.
on_task_error_cierre ==
    /\ dialogos # <<>>
    /\ dialogos[Len(dialogos)] = "critical"
    /\ dialogos' = SubSeq(dialogos, 1, Len(dialogos) - 1)
    /\ evento' = [op |-> "on_task_error", res |-> "cerrado"]
    /\ UNCHANGED <<is_task_running, running_workers, last_error>>

\* on_load_data_thread, from the "Refrescar Tablas" item: its start_task call
\* omits the required on_error argument, so Python raises TypeError before
\* start_task's body runs; no stage of the reload is submitted.
on_load_data_thread ==
    /\ dialogos = <<>>
    /\ evento' = [op |-> "on_load_data_thread", res |-> "TypeError"]
    /\ UNCHANGED <<is_task_running, running_workers, last_error, dialogos>>

\* The busy flag after the slot connected to finished: the completion
\* handlers clear it and then call on_load_data_thread; a context-menu task
\* has on_load_data_thread itself as its slot.  on_load_data_thread calls
\* start_task without its required on_error argument: TypeError before
\* start_task's body, so it submits nothing and leaves the flag alone.
BanderaTrasFinished(on_finished) ==
    IF on_finished = "on_load_data_thread" THEN is_task_running ELSE FALSE

\* Delivery of finished: the task's completion slot, then on_worker_finished.
on_finished_entrega(w) ==
    /\ w \in running_workers
    /\ w.estado = FinishedPendiente
    /\ is_task_running' = BanderaTrasFinished(w.on_finished)
    /\ running_workers' = running_workers \ {w}
    /\ evento' = [op |-> w.on_finished, res |-> "finished"]
    /\ UNCHANGED <<last_error, dialogos>>

\* ------------------------------------------------------ TableManagerMixin
\* Date-times are seconds.
Minuto == 60
Dia    == 24 * 60 * Minuto
Ahora  == 100 * Dia + 30            \* datetime.now() of the filter
Sufijo2do == " (2° Llamado)"

\* str.lower() and the `in` test of str, on the texts of the tables.
Lower(s) ==
    CASE s = "HOSP"     -> "hosp"
      [] s = "Hospital" -> "hospital"
      [] s = "Lapiz"    -> "lapiz"
      [] s = "N/A"      -> "n/a"
      [] OTHER          -> s

Contiene(sub, s) ==
    \/ sub = ""
    \/ sub = s
    \/ <<sub, s>> \in {<<"lap", "lapiz">>, <<"hosp", "hospital">>,
                       <<"2° Llamado", Sufijo2do>>}

\* The records a view hands to poblar_tabla: the row of the quick-filter
\* example (amount 50,000, closing 10 days out), a second call closing in 3
\* days, a record with every optional field NULL, a first call already
\* closed whose status text names the second call, and a record that
\* closes 20 seconds from now.
LicitacionTabla(codigo, nombre, organismo, monto, cierre, estado, conv) ==
    [codigo_ca |-> codigo, nombre |-> nombre, organismo |-> organismo,
     monto_clp |-> monto, fecha_cierre |-> cierre, estado_ca_texto |-> estado,
     estado_convocatoria |-> conv]

LicitacionesTabla ==
    {LicitacionTabla("c1", "Lapiz", "Hospital", 50000, Ahora + 10 * Dia,
                     Publicada, NoneNum),
     LicitacionTabla("c2", "Lapiz", "Hospital", 100000, Ahora + 3 * Dia,
                     Publicada, 2),
     LicitacionTabla("c3", "Mesa", None, NoneNum, NoneNum, None, 1),
     LicitacionTabla("c4", "Mesa", "Hospital", 100000, Ahora - Dia,
                     Publicada2, 1),
     LicitacionTabla("c5", "Mesa", "Hospital", 50000, Ahora + 20,
                     Cerrada, 2)}

\* estado_str of poblar_tabla, as the parts it concatenates.
EstadoStr_conConvocatoria(licitacion) ==
    <<IF Falsy(licitacion.estado_ca_texto) THEN "N/A"
      ELSE licitacion.estado_ca_texto>>
    \o (IF licitacion.estado_convocatoria # NoneNum THEN <<Sufijo2do>> ELSE <<>>)

EstadoStr(licitacion) ==
    <<IF Falsy(licitacion.estado_ca_texto) THEN "N/A"
      ELSE licitacion.estado_ca_texto>>
    \o (IF licitacion.estado_convocatoria = 2 THEN <<Sufijo2do>> ELSE <<>>)

\* strftime("%Y-%m-%d %H:%M") followed by strptime of the same format: the
\* seconds are dropped; NoneNum stands for the text "N/A" (strftime on None
\* raises, and the except clause writes "N/A").
FechaCelda(fecha) ==
    IF fecha = NoneNum THEN NoneNum ELSE fecha - (fecha % Minuto)

\* The cells of one row that the filter reads.
FilaDe(licitacion) ==
    [codigo  |-> licitacion.codigo_ca,
     nombre  |-> licitacion.nombre,
     organismo |-> IF licitacion.organismo = None THEN "N/A"
                   ELSE licitacion.organismo,
     estado  |-> EstadoStr(licitacion),
     fecha_cierre |-> FechaCelda(licitacion.fecha_cierre),
     monto_user_role |-> IF licitacion.monto_clp = NoneNum THEN 0
                         ELSE licitacion.monto_clp]

\* poblar_tabla: the model is cleared and rebuilt, one row per record.
poblar_tabla(data) == [k \in DOMAIN data |-> FilaDe(data[k])]

\* should_show of filter_table_view for one row.
should_show_montoPrimero(fila, text, only_2nd, days_limit, min_amount) ==
    LET filter_text == Lower(text)
        pasa_texto ==
            filter_text # "" =>
                \/ Contiene(filter_text, Lower(fila.codigo))
                \/ Contiene(filter_text, Lower(fila.nombre))
                \/ Contiene(filter_text, Lower(fila.organismo))
        pasa_2do ==
            only_2nd =>
                \E k \in DOMAIN fila.estado : Contiene("2° Llamado", fila.estado[k])
        pasa_monto == min_amount > 0 => fila.monto_user_role >= min_amount
        pasa_dias ==
            (days_limit > 0 /\ min_amount = 0) =>
                /\ fila.fecha_cierre # NoneNum
                /\ fila.fecha_cierre - Ahora >= 0
                /\ (fila.fecha_cierre - Ahora) \div Dia < days_limit
    IN  pasa_texto /\ pasa_2do /\ pasa_dias /\ pasa_monto

should_show(fila, text, only_2nd, days_limit, min_amount) ==
    LET filter_text == Lower(text)
        pasa_texto ==
            filter_text # "" =>
                \/ Contiene(filter_text, Lower(fila.codigo))
                \/ Contiene(filter_text, Lower(fila.nombre))
                \/ Contiene(filter_text, Lower(fila.organismo))
        pasa_2do ==
            only_2nd =>
                \E k \in DOMAIN fila.estado : Contiene("2° Llamado", fila.estado[k])
        pasa_dias ==
            days_limit > 0 =>
                /\ fila.fecha_cierre # NoneNum
                /\ fila.fecha_cierre - Ahora >= 0
                /\ (fila.fecha_cierre - Ahora) \div Dia < days_limit
        pasa_monto == min_amount > 0 => fila.monto_user_role >= min_amount
    IN  pasa_texto /\ pasa_2do /\ pasa_dias /\ pasa_monto

\* No model populated yet, no filter applied.
SinFiltro ==
    [aplicado |-> FALSE, text |-> "", only_2nd |-> FALSE, days_limit |-> 0,
     min_amount |-> 0]

TablaVacia == [data |-> <<>>, filas |-> <<>>, ocultas |-> {}, filtro |-> SinFiltro]

\* A reload stage repopulates the table: model.clear() resets the view, so
\* no row is hidden until the filter runs again.
PoblarTabla(data) ==
    tabla' = [data |-> data, filas |-> poblar_tabla(data), ocultas |-> {},
              filtro |-> SinFiltro]

\* filter_table_view: setRowHidden(row, not should_show) for every row.
filter_table_view(text, only_2nd, days_limit, min_amount) ==
    tabla' = [tabla EXCEPT
                !.ocultas = {row \in DOMAIN tabla.filas :
                                ~should_show(tabla.filas[row], text, only_2nd,
                                             days_limit, min_amount)},
                !.filtro = [aplicado |-> TRUE, text |-> text,
                            only_2nd |-> only_2nd, days_limit |-> days_limit,
                            min_amount |-> min_amount]]

\* ------------------------------------------------- ExcelService, tab report
\* The pages of the navigation bar, by the text initNavigation gives them.
Pestanas == {"Candidatas", "Relevantes", "Seguimiento", "Ofertadas"}

\* The rows of the view behind a page.
VistaDe(pestana) ==
    CASE pestana = "Candidatas"  -> obtener_datos_tab1_candidatas
      [] pestana = "Relevantes"  -> obtener_datos_tab2_relevantes
      [] pestana = "Seguimiento" -> obtener_datos_tab3_seguimiento
      [] pestana = "Ofertadas"   -> obtener_datos_tab4_ofertadas

\* current_tab_name of on_open_export_pestañas_dialog: MainWindow has no
\* attribute tabs, so self.tabs.currentIndex() raises AttributeError and the
\* except clause substitutes the fallback, whatever page is shown.
NombrePestanaActual(pestana) == "Actual"

columnas_tab_1 ==
    <<"Score", "Código CA", "Nombre", "Organismo", "Dirección Entrega",
      "Estado", "Fecha Publicación", "Fecha Cierre", "Proveedores">>

columnas_detalladas ==
    <<"Score", "Código CA", "Nombre", "Descripcion", "Organismo",
      "Dirección Entrega", "Estado", "Fecha Publicación", "Fecha Cierre",
      "Fecha Cierre 2do Llamado", "Productos", "Proveedores",
      "Favorito", "Ofertada">>

\* tab_name.startswith("CAs Candidatas") and sheet_name.split(' ')[0], on
\* the names that reach them.
EmpiezaConCAsCandidatas(tab_name) ==
    tab_name \in {"CAs Candidatas", "CAs Candidatas (Fase 1)"}

PrimeraPalabra(nombre) ==
    IF nombre \in {"CAs Candidatas", "CAs Candidatas (Fase 1)", "CAs Relevantes",
                   "CAs Relevantes (Fase 2)", "CAs en Seguimiento",
                   "CAs en Seguimiento (Favoritos)", "CAs Ofertadas"}
    THEN "CAs" ELSE nombre

\* _aplicar_schema_dataframe(_convertir_a_dataframe(datos), tab_name), kept
\* under the key clave of dfs_to_export: its columns, the stored rows it
\* holds, and the sheet it is written to.
Hoja(clave, datos, tab_name) ==
    [clave |-> clave,
     hoja |-> PrimeraPalabra(clave),
     columnas |-> IF EmpiezaConCAsCandidatas(tab_name) THEN columnas_tab_1
                  ELSE columnas_detalladas,
     filas |-> {l.ca_id : l \in datos}]

\* The rows of scope "current": the view whose full tab title tab_name is,
\* and no rows for any other name.
DatosDePestana(tab_name) ==
    CASE tab_name = "CAs Candidatas (Fase 1)"        -> obtener_datos_tab1_candidatas
      [] tab_name = "CAs Relevantes (Fase 2)"        -> obtener_datos_tab2_relevantes
      [] tab_name = "CAs en Seguimiento (Favoritos)" -> obtener_datos_tab3_seguimiento
      [] tab_name = "CAs Ofertadas"                  -> obtener_datos_tab4_ofertadas
      [] OTHER                                       -> {}

\* generar_reporte_pestañas(options): dfs_to_export.
generar_reporte_pestanas(options) ==
    IF options.scope = "all"
    THEN {Hoja("Candidatas", obtener_datos_tab1_candidatas, "CAs Candidatas"),
          Hoja("Relevantes", obtener_datos_tab2_relevantes, "CAs Relevantes"),
          Hoja("Seguimiento", obtener_datos_tab3_seguimiento, "CAs en Seguimiento"),
          Hoja("Ofertadas", obtener_datos_tab4_ofertadas, "CAs Ofertadas")}
    ELSE {Hoja(options.tab_name, DatosDePestana(options.tab_name),
               options.tab_name)}

SinOpciones == [format |-> "", scope |-> "", tab_name |-> ""]

SinReporte ==
    [pestana |-> "", current_tab_name |-> "", options |-> SinOpciones,
     hojas |-> {}]

\* on_open_export_pestañas_dialog with the page pestana shown, up to
\* dialog.exec().
on_open_export_pestanas_dialog(pestana) ==
    /\ dialogos = <<>>
    /\ IF is_task_running
       THEN /\ evento' = [op |-> "on_open_export_pestañas_dialog", res |-> "ocupado"]
            /\ UNCHANGED <<dialogos, reporte>>
       ELSE /\ dialogos' = Append(dialogos, "export")
            /\ reporte' = [SinReporte EXCEPT
                              !.pestana = pestana,
                              !.current_tab_name = NombrePestanaActual(pestana)]
            /\ evento' = [op |-> "on_open_export_pestañas_dialog", res |-> "dialogo"]
    /\ UNCHANGED <<is_task_running, running_workers, last_error>>

\* The export dialog is answered: on Accept, get_options of the dialog and
\* on_run_export_report_task with them.
on_open_export_pestanas_dialog_respuesta(aceptar, formato, scope) ==
    /\ dialogos # <<>>
    /\ dialogos[Len(dialogos)] = "export"
    /\ dialogos' = SubSeq(dialogos, 1, Len(dialogos) - 1)
    /\ IF aceptar /\ ~is_task_running
       THEN /\ start_task("generar_reporte_pestañas",
                          "on_export_report_completed", FALSE)
            /\ reporte' = [reporte EXCEPT
                              !.options = [format |-> formato, scope |-> scope,
                                           tab_name |-> reporte.current_tab_name]]
            /\ evento' = [op |-> "on_run_export_report_task", res |-> "enviado"]
       ELSE /\ evento' = [op |-> "on_open_export_pestañas_dialog",
                          res |-> IF aceptar THEN "ocupado" ELSE "cancelado"]
            /\ UNCHANGED <<is_task_running, running_workers, last_error, reporte>>

\* Worker.run of the report task: the sheets are built from the views as
\* they are now and the path of the file is returned.
Worker_run_reporte(w) ==
    /\ w.task = "generar_reporte_pestañas"
    /\ Worker_run(w, FALSE, "valor")
    /\ reporte' = [reporte EXCEPT !.hojas = generar_reporte_pestanas(reporte.options)]

\* --------------------------------------------- MainWindow, window and tray
\* The window run_gui shows, with both timers started by the settings
\* (one hour, one minute).
HoraMs   == 60 * 60 * 1000
MinutoMs == 60 * 1000

VentanaInicial ==
    [force_close |-> FALSE, visible |-> TRUE, cerrada |-> FALSE,
     app_running |-> TRUE, timer_fase1 |-> HoraMs, timer_fase2 |-> MinutoMs]

\* closeEvent(event) on the window v: accept when force_close is set, else
\* ignore and hide.  Qt hides a window whose close event was accepted.
TrasCloseEvent_acepta(v) ==
    [v EXCEPT !.visible = FALSE, !.cerrada = TRUE]

TrasCloseEvent(v) ==
    IF v.force_close THEN [v EXCEPT !.visible = FALSE, !.cerrada = TRUE]
    ELSE [v EXCEPT !.visible = FALSE]

\* A close request reaches the window (title bar, Alt+F4).
closeEvent ==
    /\ ventana.app_running
    /\ dialogos = <<>>
    /\ ventana' = TrasCloseEvent(ventana)
    /\ evento' = [op |-> "closeEvent",
                  res |-> IF ventana'.cerrada THEN "accepted" ELSE "ignored"]
    /\ UNCHANGED <<is_task_running, running_workers, last_error, dialogos>>

\* "Abrir Monitor" of the tray menu, or a double click on the tray icon.
showNormal ==
    /\ ventana.app_running
    /\ ventana' = [ventana EXCEPT !.visible = TRUE, !.cerrada = FALSE]
    /\ evento' = [op |-> "showNormal", res |-> ""]
    /\ UNCHANGED <<is_task_running, running_workers, last_error, dialogos>>

\* force_quit, "Cerrar Aplicación" of the tray menu: the flag, close() with
\* its close event, and QApplication.quit().
force_quit ==
    /\ ventana.app_running
    /\ ventana' = [TrasCloseEvent([ventana EXCEPT !.force_close = TRUE])
                     EXCEPT !.app_running = FALSE]
    /\ evento' = [op |-> "force_quit",
                  res |-> IF ventana'.cerrada THEN "accepted" ELSE "ignored"]
    /\ UNCHANGED <<is_task_running, running_workers, last_error, dialogos>>

\* A reconfiguration that starts timers and never stops one.
reload_timers_config_sinStop(v, horas, minutos, falla) ==
    [v EXCEPT !.timer_fase1 = IF horas > 0 THEN horas * HoraMs ELSE @,
              !.timer_fase2 = IF minutos > 0 THEN minutos * MinutoMs ELSE @]

\* reload_timers_config with the settings horas and minutos.  falla: the
\* settings cannot be loaded ("load"), the second interval cannot be read
\* ("fase2"), or ""; the except clause logs, so what was done stays done.
reload_timers_config(v, horas, minutos, falla) ==
    IF falla = "load" THEN v
    ELSE LET v1 == [v EXCEPT !.timer_fase1 = IF horas > 0 THEN horas * HoraMs ELSE 0]
         IN  IF falla = "fase2" THEN v1
             ELSE [v1 EXCEPT !.timer_fase2 =
                                IF minutos > 0 THEN minutos * MinutoMs ELSE 0]

\* on_open_settings_dialog: nothing while a task runs, else the modal
\* settings dialog.
on_open_settings_dialog ==
    /\ ventana.app_running
    /\ ventana.visible
    /\ dialogos = <<>>
    /\ IF is_task_running
       THEN /\ evento' = [op |-> "on_open_settings_dialog", res |-> "ocupado"]
            /\ UNCHANGED dialogos
       ELSE /\ dialogos' = Append(dialogos, "settings")
            /\ evento' = [op |-> "on_open_settings_dialog", res |-> "dialogo"]
    /\ UNCHANGED <<is_task_running, running_workers, last_error, ventana>>

\* on_settings_changed, emitted by the settings dialog: the rules are
\* reloaded (falla = "reglas": that raises, and a critical box reports it),
\* the timers are reconfigured, and an information box is shown.
on_settings_changed(horas, minutos, falla) ==
    /\ ventana.app_running
    /\ dialogos # <<>>
    /\ dialogos[Len(dialogos)] = "settings"
    /\ Len(dialogos) < MaxDialogos
    /\ IF falla = "reglas"
       THEN /\ dialogos' = Append(dialogos, "config_critical")
            /\ evento' = [op |-> "on_settings_changed", res |-> "error"]
            /\ UNCHANGED <<ventana, score_engine>>
       ELSE /\ score_engine' = recargar_reglas(score_engine)
            /\ ventana' = reload_timers_config(ventana, horas, minutos, falla)
            /\ dialogos' = Append(dialogos, "config_information")
            /\ evento' = [op |-> "on_settings_changed", res |-> "aplicada",
                          horas |-> horas, minutos |-> minutos, falla |-> falla]
    /\ UNCHANGED <<is_task_running, running_workers, last_error>>

\* The settings dialog, while it is open, administers the keyword and
\* agency rules through the DbService: the stored rules become reglamento.
administra_reglas(reglamento) ==
    /\ dialogos # <<>>
    /\ dialogos[Len(dialogos)] = "settings"
    /\ score_engine' = [score_engine EXCEPT !.guardadas = reglamento]

\* The user closes the dialog on top: a box of on_settings_changed, or the
\* settings dialog itself.
cierra_dialogo_configuracion ==
    /\ ventana.app_running
    /\ dialogos # <<>>
    /\ dialogos[Len(dialogos)] \in {"settings", "config_critical",
                                     "config_information"}
    /\ dialogos' = SubSeq(dialogos, 1, Len(dialogos) - 1)
    /\ evento' = [op |-> "dialogo_configuracion", res |-> "cerrado"]
    /\ UNCHANGED <<is_task_running, running_workers, last_error, ventana>>

Init ==
    /\ licitaciones = {}
    /\ seguimientos = {}
    /\ sectores = {}
    /\ organismos = {}
    /\ reglas = {}
    /\ seq_ca = 0
    /\ seq_regla = 0
    /\ last = [op |-> "init", args |-> <<>>, raised |-> FALSE, fallo |-> FALSE,
               res |-> <<>>]
    /\ is_task_running = FALSE
    /\ running_workers = {}
    /\ last_error = FALSE
    /\ dialogos = <<>>
    /\ evento = [op |-> "init", res |-> ""]
    /\ etl = EtlEnReposo
    /\ ventana = VentanaInicial
    /\ tabla = TablaVacia
    /\ reporte = SinReporte
    /\ score_engine = MotorInicial

\* ------------------------------------------- specification: curation
Ingesta ==
    /\ \E item \in ItemsCuracion :
           insertar_o_actualizar_licitaciones_raw(<<item>>)
    /\ UNCHANGED fuera_db

Puntuar ==
    /\ \E a \in Actualizaciones : actualizar_puntajes_fase_1_en_lote(a)
    /\ UNCHANGED fuera_db

MarcarFavorito ==
    /\ \E ca_id \in CaIds, b \in BOOLEAN : gestionar_favorito(ca_id, b)
    /\ UNCHANGED fuera_db

MarcarOfertada ==
    /\ \E ca_id \in CaIds, b \in BOOLEAN : gestionar_ofertada(ca_id, b)
    /\ UNCHANGED fuera_db

EditarNota ==
    /\ \E ca_id \in CaIds, n \in Notas :
           actualizar_nota_seguimiento(ca_id, n)
    /\ UNCHANGED fuera_db

EliminarDefinitivo ==
    /\ \E ca_id \in CaIds : eliminar_ca_definitivamente(ca_id)
    /\ UNCHANGED fuera_db


Next ==
    \/ Ingesta
    \/ MarcarFavorito
    \/ MarcarOfertada
    \/ EditarNota
    \/ EliminarDefinitivo

Spec == Init /\ [][Next]_vars

\* ---------------------------------------------- specification: views
NextVistas ==
    \/ Ingesta
    \/ Puntuar
    \/ MarcarFavorito
    \/ MarcarOfertada

SpecVistas == Init /\ [][NextVistas]_vars

\* ------------------------------------------ specification: retention
IngestaLimpieza ==
    /\ \E item \in ItemsLimpieza :
           insertar_o_actualizar_licitaciones_raw(<<item>>)
    /\ UNCHANGED fuera_db

Limpieza ==
    /\ limpiar_registros_antiguos(dias_retencion)
    /\ UNCHANGED fuera_db


NextLimpieza ==
    \/ IngestaLimpieza
    \/ MarcarFavorito
    \/ Limpieza

SpecLimpieza == Init /\ [][NextLimpieza]_vars

\* ------------------------------- specification: merges and removals
\* A detail loop holds the codes it read before it started; each merge is a
\* session of its own, so hard deletes and retention cleanups of other
\* threads fall between the merges.  The listing records: c1 closed 60
\* days ago, c1 published again, c2 closed 60 days ago.
ItemsFusion ==
    {Item("c1", Absent, "a", "s", Cerrada, FechaAntigua, 1, NoneNum),
     Item("c1", Absent, "a", "s", Publicada, FechaReciente, 1, 1),
     Item("c2", Absent, "a", "s", Cerrada, FechaAntigua, 1, NoneNum)}

IngestaFusion ==
    /\ \E item \in ItemsFusion :
           insertar_o_actualizar_licitaciones_raw(<<item>>)
    /\ UNCHANGED fuera_db

FusionFase2 ==
    /\ \E codigo_ca \in Codigos, datos_ficha \in Fichas :
           actualizar_ca_con_fase_2(
               codigo_ca, datos_ficha,
               UMBRAL_FASE_1 + calcular_puntuacion_fase_2("r1", datos_ficha))
    /\ UNCHANGED fuera_db

NextFusion ==
    \/ IngestaFusion
    \/ MarcarFavorito
    \/ Limpieza
    \/ EliminarDefinitivo
    \/ EditarNota
    \/ FusionFase2

SpecFusion == Init /\ [][NextFusion]_vars

\* ------------------------------------------ specification: relisting
\* Listings of c1 and c2 ingested between fiche merges and favorite marks:
\* c1 closed with no convocation state, and c1 published under another
\* title, amount, publication date and agency.
ItemsRelistado ==
    {Item("c1", Absent, "a", "s", Cerrada, FechaAntigua, 1, NoneNum),
     Relistado(Item("c1", Absent, "b", "s", Publicada, FechaReciente, 1, 1)),
     Item("c2", Absent, "a", "s", Publicada, FechaReciente, 1, NoneNum)}

IngestaRelistado ==
    /\ \E compras \in LotesDe(ItemsRelistado, MaxLote) :
           insertar_o_actualizar_licitaciones_raw(compras)
    /\ UNCHANGED fuera_db

NextRelistado ==
    \/ IngestaRelistado
    \/ MarcarFavorito
    \/ FusionFase2

SpecRelistado == Init /\ [][NextRelistado]_vars

\* ------------------------------------------ specification: ingestion
LotesUpsert   == LotesDe(ItemsUpsert, MaxLote)
CargaLote ==
    /\ \E compras \in LotesUpsert :
           insertar_o_actualizar_licitaciones_raw(compras)
    /\ UNCHANGED fuera_db

PuntuarCarga ==
    /\ \E a \in ActualizacionesCon({7}) :
           actualizar_puntajes_fase_1_en_lote(a)
    /\ UNCHANGED fuera_db


NextUpsert ==
    \/ CargaLote
    \/ PuntuarCarga

SpecUpsert == Init /\ [][NextUpsert]_vars

\* ------------------------------------- specification: agency names
\* Records of code c1 whose agency name is missing, None, empty, whitespace
\* only or padded, and records of code c2 whose unit name is.
ItemsNombres ==
    {Item("c1", Absent, o, " a ", Publicada, FechaReciente, 1, NoneNum) :
        o \in {Absent, None, "", "  ", " a "}}
    \cup {Item("c2", Absent, "b", u, Publicada, FechaReciente, 1, NoneNum) :
        u \in {Absent, None, "", "  ", " a "}}

CargaNombres ==
    /\ \E item \in ItemsNombres :
           insertar_o_actualizar_licitaciones_raw(<<item>>)
    /\ UNCHANGED fuera_db

NextNombres ==
    \/ CargaNombres

SpecNombres == Init /\ [][NextNombres]_vars

\* ---------------------------------------- specification: agency rules
ItemsReglas ==
    {Item("c1", Absent, "a", "s", Publicada, FechaReciente, 1, NoneNum),
     Item("c2", Absent, "b", "s", Publicada, FechaReciente, 1, NoneNum)}

OrganismoIds == {1, 2, 3}
PuntosRegla  == {NoneNum, 2, 5}

IngestaReglas ==
    /\ \E item \in ItemsReglas :
           insertar_o_actualizar_licitaciones_raw(<<item>>)
    /\ UNCHANGED fuera_db

FijarRegla ==
    /\ \E o \in OrganismoIds, t \in {PRIORITARIO, NO_DESEADO},
          p \in PuntosRegla : set_organismo_regla(o, t, p)
    /\ UNCHANGED fuera_db

BorrarRegla ==
    /\ \E o \in OrganismoIds : delete_organismo_regla(o)
    /\ UNCHANGED fuera_db


NextReglas ==
    \/ IngestaReglas
    \/ FijarRegla
    \/ BorrarRegla

SpecReglas == Init /\ [][NextReglas]_vars

\* ---------------------------------- specification: background tasks
TareasMenu == {"gestionar_favorito"}

ClicRecalcular     == on_run_recalculate_thread /\ UNCHANGED fuera_gui
ResponderRecalculo ==
    /\ \E si \in BOOLEAN : on_run_recalculate_thread_respuesta(si)
    /\ UNCHANGED fuera_gui
AccionMenu ==
    /\ \E task \in TareasMenu : run_context_menu_action(task)
    /\ UNCHANGED fuera_gui
ClicRefrescar == on_load_data_thread /\ UNCHANGED fuera_gui
TimerFase1 == on_start_full_scraping_auto /\ UNCHANGED fuera_gui
TimerFase2 == on_run_fase2_update_thread_auto /\ UNCHANGED fuera_gui
TareaTermina ==
    /\ \E w \in running_workers, progreso \in BOOLEAN, resultado \in Resultados :
          Worker_run(w, progreso, resultado)
    /\ UNCHANGED fuera_gui
EntregaError ==
    /\ \E w \in running_workers : on_task_error(w)
    /\ UNCHANGED fuera_gui
CierraError == on_task_error_cierre /\ UNCHANGED fuera_gui
EntregaFinished ==
    /\ \E w \in running_workers : on_finished_entrega(w)
    /\ UNCHANGED fuera_gui

NextGui ==
    \/ ClicRecalcular
    \/ ResponderRecalculo
    \/ AccionMenu
    \/ ClicRefrescar
    \/ TimerFase1
    \/ TimerFase2
    \/ TareaTermina
    \/ EntregaError
    \/ CierraError
    \/ EntregaFinished

SpecGui == Init /\ [][NextGui]_vars

\* The same program under its scheduling: a task submitted to the thread
\* pool runs to its end, and the event loop of the main thread delivers
\* every queued signal.
SpecGuiJusto ==
    /\ SpecGui
    /\ WF_vars(TareaTermina)
    /\ WF_vars(EntregaError)
    /\ WF_vars(EntregaFinished)

\* --------------------------------------- specification: failing sessions
LimpiezaFalla ==
    /\ \E en_commit \in BOOLEAN :
          limpiar_registros_antiguos_error(dias_retencion, en_commit)
    /\ UNCHANGED fuera_db
PuntuarFalla ==
    /\ \E a \in ActualizacionesCon({7}) : actualizar_puntajes_fase_1_en_lote_error(a)
    /\ UNCHANGED fuera_db
EliminarFalla ==
    /\ \E ca_id \in CaIds : eliminar_ca_definitivamente_error(ca_id)
    /\ UNCHANGED fuera_db

NextFallos ==
    \/ IngestaLimpieza
    \/ MarcarFavorito
    \/ Limpieza
    \/ LimpiezaFalla
    \/ PuntuarFalla
    \/ EliminarFalla

SpecFallos == Init /\ [][NextFallos]_vars

\* ------------------------------------------------ specification: pipeline
LotesEtl == LotesDe(ItemsEtl, MaxLote)

LlamaEtl ==
    /\ EtlLlamada("run_etl_live_to_db", "extract")
    /\ UNCHANGED fuera_etl
LlamaRecalculo ==
    /\ dialogos = <<>>
    /\ EtlLlamada("run_recalculo_total_fase_1", "recalculo")
    /\ UNCHANGED fuera_etl
LlamaFase2 ==
    /\ EtlLlamada("run_fase2_update", "consulta")
    /\ UNCHANGED fuera_etl
LlamaSalud ==
    /\ dialogos = <<>>
    /\ EtlLlamada("run_health_check", "salud")
    /\ UNCHANGED fuera_etl
Extract ==
    /\ \E falla \in BOOLEAN, datos_crudos \in LotesEtl :
          etl_extract(falla, datos_crudos)
    /\ UNCHANGED fuera_etl
Load ==
    /\ \E falla \in BOOLEAN : etl_load(falla)
    /\ UNCHANGED fuera_etl
Transform ==
    /\ \E falla \in {"", "consulta", "guardado"} : etl_transform(falla)
    /\ UNCHANGED fuera_etl
Candidatas ==
    /\ \E falla \in BOOLEAN : etl_candidatas(falla)
    /\ UNCHANGED fuera_etl
ConsultaFase2 ==
    /\ \E falla \in BOOLEAN : fase2_consulta(falla)
    /\ UNCHANGED fuera_etl
Navegador ==
    /\ \E falla \in BOOLEAN : etl_navegador(falla)
    /\ UNCHANGED fuera_etl
Bucle ==
    /\ \E scrape \in {"excepcion", "None", "ficha"}, ficha \in Fichas,
          falla_bd \in BOOLEAN :
          etl_bucle(scrape, ficha, falla_bd)
    /\ UNCHANGED fuera_etl
BucleFin ==
    /\ etl_bucle_fin
    /\ UNCHANGED fuera_etl
Recalculo ==
    /\ \E falla \in {"", "reglas", "consulta", "guardado"} :
          run_recalculo_total_fase_1(falla)
    /\ UNCHANGED fuera_motor
Salud ==
    /\ \E resultado \in ResultadosSalud : run_health_check(resultado)
    /\ UNCHANGED fuera_etl
FavoritoEtl ==
    /\ etl.pc \in {"reposo", "fin"}
    /\ dialogos = <<>>
    /\ ExisteCa(1)
    /\ gestionar_favorito(1, TRUE)
    /\ UNCHANGED fuera_db
\* The settings dialog opens only when no task runs, and can stay open
\* while a run started by a timer is under way (the runs the menu starts
\* need the main window): the operator edits the rules, saves, and closes.
fuera_reglas == <<db, seq_ca, seq_regla, last, etl, tabla, reporte>>
AbreConfiguracionEtl ==
    /\ etl.pc \in {"reposo", "fin"}
    /\ on_open_settings_dialog
    /\ UNCHANGED <<fuera_reglas, score_engine>>
EditaReglasEtl ==
    /\ \E reglamento \in Reglamentos \ {score_engine.guardadas} :
          administra_reglas(reglamento)
    /\ UNCHANGED <<fuera_reglas, gui, ventana>>
CambiaConfiguracionEtl ==
    /\ on_settings_changed(ventana.timer_fase1 \div HoraMs,
                           ventana.timer_fase2 \div MinutoMs, "")
    /\ UNCHANGED fuera_reglas
CierraConfiguracionEtl ==
    /\ cierra_dialogo_configuracion
    /\ UNCHANGED <<fuera_reglas, score_engine>>

NextEtl ==
    \/ LlamaEtl
    \/ LlamaRecalculo
    \/ LlamaFase2
    \/ LlamaSalud
    \/ Extract
    \/ Load
    \/ Transform
    \/ Candidatas
    \/ ConsultaFase2
    \/ Navegador
    \/ Bucle
    \/ BucleFin
    \/ Recalculo
    \/ Salud
    \/ FavoritoEtl
    \/ AbreConfiguracionEtl
    \/ EditaReglasEtl
    \/ CambiaConfiguracionEtl
    \/ CierraConfiguracionEtl

SpecEtl == Init /\ [][NextEtl]_vars

\* ------------------------------------------ specification: window and tray
fuera_ventana == <<db, seq_ca, seq_regla, last, etl, tabla, reporte, score_engine>>

CierraVentana      == closeEvent /\ UNCHANGED fuera_ventana
RestauraVentana    == showNormal /\ UNCHANGED fuera_ventana
SalirDesdeBandeja  == force_quit /\ UNCHANGED fuera_ventana
AbreConfiguracion  == on_open_settings_dialog /\ UNCHANGED fuera_ventana
CambiaConfiguracion ==
    /\ \E horas \in 0..MaxIntervalo, minutos \in 0..MaxIntervalo,
          falla \in {"", "reglas", "load", "fase2"} :
          on_settings_changed(horas, minutos, falla)
    /\ UNCHANGED <<db, seq_ca, seq_regla, last, etl, tabla, reporte>>
CierraDialogoConfiguracion ==
    cierra_dialogo_configuracion /\ UNCHANGED fuera_ventana
\* The event loop delivers timeouts of active timers and queued signals
\* only while app.exec() runs.
DisparaTimerFase1 ==
    /\ ventana.app_running
    /\ ventana.timer_fase1 > 0
    /\ TimerFase1
DisparaTimerFase2 ==
    /\ ventana.app_running
    /\ ventana.timer_fase2 > 0
    /\ TimerFase2
TareaTerminaVentana    == ventana.app_running /\ TareaTermina
EntregaErrorVentana    == ventana.app_running /\ EntregaError
CierraErrorVentana     == ventana.app_running /\ CierraError
EntregaFinishedVentana == ventana.app_running /\ EntregaFinished

NextVentana ==
    \/ CierraVentana
    \/ RestauraVentana
    \/ SalirDesdeBandeja
    \/ AbreConfiguracion
    \/ CambiaConfiguracion
    \/ CierraDialogoConfiguracion
    \/ DisparaTimerFase1
    \/ DisparaTimerFase2
    \/ TareaTerminaVentana
    \/ EntregaErrorVentana
    \/ CierraErrorVentana
    \/ EntregaFinishedVentana

SpecVentana == Init /\ [][NextVentana]_vars

\* ------------------------------------------------- specification: tables
TextosFiltro == {"", "lap", "HOSP", "zzz"}
DiasFiltro   == {0, 5, 11}
MontosFiltro == {0, 50000, 100000}
DatosTabla   == LotesDe(LicitacionesTabla, MaxFilas)

fuera_tabla == <<db, seq_ca, seq_regla, last, etl, gui, ventana, reporte,
                 score_engine>>

ResultadoDeEtapa ==
    /\ \E data \in DatosTabla : PoblarTabla(data)
    /\ UNCHANGED fuera_tabla
CambiaFiltros ==
    /\ \E text \in TextosFiltro, only_2nd \in BOOLEAN,
          days \in DiasFiltro, amount \in MontosFiltro :
          filter_table_view(text, only_2nd, days, amount)
    /\ UNCHANGED fuera_tabla

NextTabla ==
    \/ ResultadoDeEtapa
    \/ CambiaFiltros

SpecTabla == Init /\ [][NextTabla]_vars

\* --------------------------------------------- specification: tab report
fuera_reporte == <<etl, ventana, tabla, score_engine>>

\* The store changes between two exports: ingestion, scoring of every
\* stored row, and a bid-submitted mark.
EntreExportes == running_workers = {} /\ dialogos = <<>>

IngestaReporte ==
    /\ EntreExportes
    /\ \E item \in ItemsCuracion :
           insertar_o_actualizar_licitaciones_raw(<<item>>)
    /\ UNCHANGED fuera_db
PuntuarReporte ==
    /\ EntreExportes
    /\ licitaciones # {}
    /\ \E a \in [{l.ca_id : l \in licitaciones} ->
                     {UMBRAL_FASE_1, UMBRAL_FINAL_RELEVANTE}] :
          actualizar_puntajes_fase_1_en_lote(a)
    /\ UNCHANGED fuera_db
OfertadaReporte ==
    /\ EntreExportes
    /\ ExisteCa(1)
    /\ gestionar_ofertada(1, TRUE)
    /\ UNCHANGED fuera_db
AbreExportar ==
    /\ \E pestana \in Pestanas : on_open_export_pestanas_dialog(pestana)
    /\ UNCHANGED <<db, seq_ca, seq_regla, last, fuera_reporte>>
RespondeExportar ==
    /\ \E aceptar \in BOOLEAN, formato \in {"excel", "csv"},
          scope \in {"all", "current"} :
          on_open_export_pestanas_dialog_respuesta(aceptar, formato, scope)
    /\ UNCHANGED <<db, seq_ca, seq_regla, last, fuera_reporte>>
TareaExporta ==
    /\ \E w \in running_workers : Worker_run_reporte(w)
    /\ UNCHANGED <<db, seq_ca, seq_regla, last, fuera_reporte>>

NextReporte ==
    \/ IngestaReporte
    \/ PuntuarReporte
    \/ OfertadaReporte
    \/ AbreExportar
    \/ RespondeExportar
    \/ TareaExporta
    \/ EntregaFinished

SpecReporte == Init /\ [][NextReporte]_vars

\* =============================================================== claims
EsFavorita(l) == \E s \in seguimientos : s.ca_id = l.ca_id /\ s.es_favorito

\* C1 (as claimed): a retention cleanup keeps every opportunity whose
\* tracking row is favorite, and deletes every non-favorite opportunity whose
\* closing date is older than the window, whose status is not one of the two
\* published texts and whose convocation state is absent or not 2.
C1_LimpiezaBorraNoFavoritas ==
    [][last'.op = "limpiar" =>
        \A l \in licitaciones :
            /\ EsFavorita(l) => l \in licitaciones'
            /\ ( /\ ~EsFavorita(l)
                 /\ l.fecha_cierre # NoneNum
                 /\ l.fecha_cierre < Hoy - last'.args[1]
                 /\ l.estado_ca_texto \notin {Publicada, Publicada2}
                 /\ l.estado_convocatoria # 2 )
               => l \notin licitaciones']_vars

\* C1, the half the code keeps: a cleanup never deletes a favorite.
C1_FavoritasProtegidas ==
    [][last'.op = "limpiar" =>
        \A l \in licitaciones : EsFavorita(l) => l \in licitaciones']_vars

\* C2 (as claimed): every tracking row with es_ofertada has es_favorito.
C2_OfertadaImplicaFavorito ==
    \A s \in seguimientos : s.es_ofertada => s.es_favorito

\* C3: gestionar_ofertada(ca_id, True) on a stored opportunity leaves exactly
\* one tracking row for it, with es_ofertada and es_favorito true; notes are
\* None on a created row and unchanged on an existing one; the rows of the
\* other opportunities are unchanged.
C3_MarcarOfertadaCreaFavorita ==
    [][(/\ last'.op = "gestionar_ofertada"
        /\ last'.args[3] = {TRUE}
        /\ ExisteCa(last'.args[1])) =>
        LET id    == last'.args[1]
            antes == {s \in seguimientos : s.ca_id = id}
            desp  == {s \in seguimientos' : s.ca_id = id}
        IN  /\ Cardinality(desp) = 1
            /\ \A s \in desp : s.es_ofertada /\ s.es_favorito
            /\ \A s \in desp : IF antes = {} THEN s.notas = None
                               ELSE \A a \in antes : s.notas = a.notas
            /\ seguimientos' \ desp = seguimientos \ antes]_vars

\* C3 witness: the call just created the row of an opportunity that had none.
C3_Witness ==
    /\ last.op = "gestionar_ofertada"
    /\ last.args[3] = {TRUE}
    /\ last.res = <<"creado">>
    /\ \E s \in seguimientos :
          s.ca_id = last.args[1] /\ s.es_ofertada /\ s.es_favorito

\* C7: Candidates is exactly score >= 5 and Relevant exactly score >= 9, so
\* Relevant is a subset of Candidates; Favorites and Bid-submitted are
\* exactly the opportunities of the tracking rows with the flag set.
C7_VistasPorUmbral ==
    /\ \A l \in licitaciones :
          /\ l \in obtener_datos_tab1_candidatas <=> l.puntuacion_final >= 5
          /\ l \in obtener_datos_tab2_relevantes <=> l.puntuacion_final >= 9
    /\ obtener_datos_tab1_candidatas \subseteq licitaciones
    /\ obtener_datos_tab2_relevantes \subseteq obtener_datos_tab1_candidatas
    /\ {l.ca_id : l \in obtener_datos_tab3_seguimiento}
          = {s.ca_id : s \in {x \in seguimientos : x.es_favorito}}
    /\ {l.ca_id : l \in obtener_datos_tab4_ofertadas}
          = {s.ca_id : s \in {x \in seguimientos : x.es_ofertada}}

\* C7 witness: a score-5 opportunity only in Candidates beside a score-9
\* opportunity in both views, one of them favorite.
C7_Witness ==
    /\ \E l \in licitaciones :
          /\ l.puntuacion_final = 5
          /\ l \in obtener_datos_tab1_candidatas \ obtener_datos_tab2_relevantes
    /\ \E l \in licitaciones :
          /\ l.puntuacion_final = 9
          /\ l \in obtener_datos_tab2_relevantes
    /\ obtener_datos_tab3_seguimiento # {}

\* The records of a batch that the loop applies: for each portal code, the
\* first record that carries it.
EsPrimero(compras, i) ==
    /\ ~Falsy(CodigoDe(compras[i]))
    /\ \A j \in 1..(i - 1) : CodigoDe(compras[j]) # CodigoDe(compras[i])

RECURSIVE PrimerosDesde(_, _)
PrimerosDesde(compras, i) ==
    IF i > Len(compras) THEN <<>>
    ELSE IF EsPrimero(compras, i)
         THEN <<compras[i]>> \o PrimerosDesde(compras, i + 1)
         ELSE PrimerosDesde(compras, i + 1)

\* C4: after a committed upsert, an opportunity that was already stored
\* under the code of a record of the batch is still the only one with that
\* code; its status text, closing date and supplier count are the record's,
\* its convocation state is the record's when the record carries one, and
\* its puntuacion_final is what it was before the call.
C4_UpsertIdempotente ==
    [][(last'.op = "insertar_raw" /\ ~last'.raised) =>
        \A i \in 1..Len(last'.args) :
            LET item == last'.args[i]
                c    == CodigoDe(item)
                pre  == {l \in licitaciones : l.codigo_ca = c}
                post == {l \in licitaciones' : l.codigo_ca = c}
            IN  (EsPrimero(last'.args, i) /\ pre # {}) =>
                /\ Cardinality(post) = 1
                /\ \A n \in post, o \in pre :
                      /\ n.ca_id = o.ca_id
                      /\ n.estado_ca_texto = GetNone(item.estado)
                      /\ n.fecha_cierre = item.fecha_cierre
                      /\ n.proveedores_cotizando = item.cantidad_provedores_cotizando
                      /\ (item.estado_convocatoria # NoneNum =>
                              n.estado_convocatoria = item.estado_convocatoria)
                      /\ n.puntuacion_final = o.puntuacion_final]_vars

\* C4 witness: the last call re-ingested a scored opportunity with changed
\* fields and no convocation state.
C4_Witness ==
    /\ last.op = "insertar_raw" /\ ~last.raised
    /\ last.res[2] = 1
    /\ \E l \in licitaciones :
          /\ l.codigo_ca = CodigoDe(last.args[1])
          /\ l.puntuacion_final = 7
          /\ l.estado_ca_texto = Cerrada
          /\ l.fecha_cierre = FechaAntigua
          /\ l.proveedores_cotizando = 3

\* C5: in a committed upsert the skipped counter is the number of records
\* with no code or with a code seen earlier in the batch, and the store is
\* what the batch of the first records of each code alone would have left;
\* two records sharing one code leave one opportunity and count one skipped.
C5_PrimeroPorCodigo ==
    [][(last'.op = "insertar_raw" /\ ~last'.raised) =>
        \A compras \in {last'.args} :
        \A solo \in {Sesion(PrimerosDesde(compras, 1))} :
            /\ last'.res[3] =
                  Cardinality({i \in 1..Len(compras) : ~EsPrimero(compras, i)})
            /\ last'.res[1] + last'.res[2] = Len(compras) - last'.res[3]
            /\ ~solo.raised
            /\ licitaciones' = solo.lic
            /\ sectores' = solo.sec
            /\ organismos' = solo.org
            /\ \A c \in {CodigoDe(compras[i]) : i \in 1..Len(compras)} :
                  ~Falsy(c) =>
                      Cardinality({l \in licitaciones' : l.codigo_ca = c}) = 1]_vars

\* C5 witness: a committed batch of two records sharing one code, one
\* opportunity inserted and one record skipped.
C5_Witness ==
    /\ last.op = "insertar_raw" /\ ~last.raised
    /\ Len(last.args) = 2
    /\ ~Falsy(CodigoDe(last.args[1]))
    /\ CodigoDe(last.args[1]) = CodigoDe(last.args[2])
    /\ last.args[1] # last.args[2]
    /\ last.res = <<1, 0, 1>>
    /\ Cardinality({l \in licitaciones : l.codigo_ca = CodigoDe(last.args[1])}) = 1

\* C6: an upsert that raises leaves every table as it was before the call.
C6_LoteAtomico ==
    [][(last'.op = "insertar_raw" /\ last'.raised) =>
        /\ licitaciones' = licitaciones
        /\ sectores' = sectores
        /\ organismos' = organismos
        /\ seguimientos' = seguimientos
        /\ reglas' = reglas]_vars

\* C6 witness: the call raised on its second record after its first record
\* had inserted an opportunity and created its Sector and Organismo in the
\* session; none of them is stored.
C6_Witness ==
    /\ last.op = "insertar_raw" /\ last.raised
    /\ Len(last.args) = 2
    /\ ~Falsy(CodigoDe(last.args[1]))
    /\ CodigoDe(last.args[1]) # CodigoDe(last.args[2])
    /\ \A l \in licitaciones : l.codigo_ca # CodigoDe(last.args[1])
    /\ \A o \in organismos : o.nombre # last.args[1].organismo
    /\ sectores = {}

\* C8: set_organismo_regla raises and stores nothing for prioritario without
\* points; a committed no_deseado call stores None points whatever was
\* passed; no stored rule is prioritario without points or no_deseado with
\* points.
C8_ReglaValidada ==
    [][/\ (last'.op = "set_regla" /\ last'.args[2] = PRIORITARIO
             /\ last'.args[3] = NoneNum)
          => (last'.raised /\ reglas' = reglas)
       /\ (last'.op = "set_regla" /\ last'.args[2] = NO_DESEADO /\ ~last'.raised)
          => \E r \in reglas' :
                /\ r.organismo_id = last'.args[1]
                /\ r.tipo = NO_DESEADO
                /\ r.puntos = NoneNum
       /\ \A r \in reglas' :
             /\ r.tipo = PRIORITARIO => r.puntos # NoneNum
             /\ r.tipo = NO_DESEADO => r.puntos = NoneNum]_vars

\* C8 witness: a no_deseado rule was set with a point value and is stored
\* without it.
C8_Witness ==
    /\ last.op = "set_regla" /\ ~last.raised
    /\ last.args[2] = NO_DESEADO /\ last.args[3] = 5
    /\ \E r \in reglas :
          r.organismo_id = last.args[1] /\ r.tipo = NO_DESEADO /\ r.puntos = NoneNum

\* C9: no two rules share an agency; a committed set_organismo_regla for an
\* agency that has a rule keeps the number of rules and leaves that agency's
\* rule with the type and points of the call.
C9_UnaReglaPorOrganismo ==
    [][/\ \A r1, r2 \in reglas' : r1.organismo_id = r2.organismo_id => r1 = r2
       /\ (last'.op = "set_regla" /\ ~last'.raised
             /\ \E r \in reglas : r.organismo_id = last'.args[1])
          => /\ Cardinality(reglas') = Cardinality(reglas)
             /\ \E r \in reglas' :
                   /\ r.organismo_id = last'.args[1]
                   /\ r.tipo = last'.args[2]
                   /\ r.puntos = IF last'.args[2] = NO_DESEADO THEN NoneNum
                                 ELSE last'.args[3]]_vars

\* C9 witness: a prioritario rule replaced the no_deseado rule of an agency
\* while another agency has its own rule.
C9_Witness ==
    /\ last.op = "set_regla" /\ last.res = <<"actualizada">>
    /\ last.args[2] = PRIORITARIO
    /\ Cardinality(reglas) = 2
    /\ \E r \in reglas : r.organismo_id = last.args[1] /\ r.tipo = PRIORITARIO

\* C10: when a task is in flight and the Phase-1 or Phase-2 timer fires, the
\* timer's handler skips the run: it submits no worker, and the set of
\* tracked workers is what it was.
C10_TimerOmiteConTareaEnVuelo ==
    [][(evento'.op \in {"on_start_full_scraping_auto",
                        "on_run_fase2_update_thread_auto"}
          /\ EnVuelo # {})
        => (evento'.res = "omitido" /\ running_workers' = running_workers)]_vars

\* C11: at most one background task is in flight: running_workers never
\* holds more than one worker, whatever opens a dialog or fires meanwhile.
C11_UnSoloWorker ==
    Cardinality(running_workers) <= 1

Veces(seq, x) == Cardinality({i \in 1..Len(seq) : seq[i] = x})

\* C12: in every execution of Worker.run, finished is emitted exactly once
\* and last; result is emitted exactly when the callable returned a value
\* other than None, error exactly when it raised, and never both.
C12_SenalesDeWorker ==
    [][evento'.op = "Worker.run" /\ evento' # evento =>
        LET e == evento'.senales
        IN  /\ Veces(e, "finished") = 1
            /\ e[Len(e)] = "finished"
            /\ Veces(e, "result") = (IF evento'.res = "valor" THEN 1 ELSE 0)
            /\ Veces(e, "error") = (IF evento'.res = "excepcion" THEN 1 ELSE 0)
            /\ ~(Veces(e, "result") > 0 /\ Veces(e, "error") > 0)]_vars

\* C12 witness: a task that reported progress and then raised: progress,
\* error, finished.
C12_Witness ==
    /\ evento.op = "Worker.run"
    /\ evento.res = "excepcion"
    /\ evento.senales = <<"progress", "error", "finished">>

\* C13: whenever the finished signal of a submitted task is delivered, the
\* busy flag is cleared and that worker leaves running_workers, whatever
\* completion handler the caller supplied.
C13_FinishedLiberaBandera ==
    [][evento'.res = "finished" =>
        /\ \E w \in running_workers :
              /\ w.estado = FinishedPendiente
              /\ running_workers' = running_workers \ {w}
        /\ is_task_running' = FALSE]_vars

EtapasRecarga ==
    {"obtener_datos_tab1_candidatas", "obtener_datos_tab2_relevantes",
     "obtener_datos_tab3_seguimiento", "obtener_datos_tab4_ofertadas"}

\* C14: a reload started by on_load_data_thread begins with the Candidates
\* query: once the handler has run, the Candidates stage is the one stage of
\* the reload among the tracked workers; and no two stages are ever tracked
\* together.
C14_RecargaEnOrden ==
    [][/\ (evento'.op = "on_load_data_thread" /\ evento'.res # "finished") =>
             {w.task : w \in running_workers' \ running_workers}
                 = {"obtener_datos_tab1_candidatas"}
       /\ Cardinality({w \in running_workers' : w.task \in EtapasRecarga}) <= 1]_vars

\* C16: a mutating Database Service call whose session fails rolls back and
\* re-raises to its caller, leaving every table as it was.
C16_FalloRelanza ==
    [][last'.fallo => (last'.raised /\ db' = db)]_vars

\* C15: every exception that leaves run_etl_live_to_db,
\* run_recalculo_total_fase_1, run_fase2_update or run_health_check is one of
\* the six pipeline-failure kinds, whichever step failed.
C15_SoloFallasDePipeline ==
    (etl.pc = "fin" /\ etl.salida # "return") => etl.salida \in ExcepcionesPipeline

\* C17: a close event while force_close is false is ignored and only hides
\* the window (the application keeps running, both timers keep their
\* state); the application stops running only in force_quit, with
\* force_close set; and force_close, once true, stays true.
C17_CierreSoloOculta ==
    [][/\ (evento'.op = "closeEvent" /\ ~ventana.force_close) =>
             /\ evento'.res = "ignored"
             /\ ventana' = [ventana EXCEPT !.visible = FALSE]
       /\ (ventana.app_running /\ ~ventana'.app_running) =>
             /\ evento'.op = "force_quit"
             /\ ventana'.force_close
       /\ ventana.force_close => ventana'.force_close]_vars

\* A close event was ignored: the window is hidden, the application runs and
\* the Phase-1 timer is active.
C17_Witness ==
    /\ evento.op = "closeEvent"
    /\ evento.res = "ignored"
    /\ ~ventana.visible
    /\ ventana.app_running
    /\ ventana.timer_fase1 > 0

\* The four predicates of the quick filters, on the record a row shows.
PasaTexto(l, text) ==
    \E campo \in {l.codigo_ca, l.nombre,
                  IF l.organismo = None THEN "N/A" ELSE l.organismo} :
        Contiene(Lower(text), Lower(campo))
Pasa2do(l) == l.estado_convocatoria = 2
PasaDias(l, dias) ==
    /\ l.fecha_cierre # NoneNum
    /\ FechaCelda(l.fecha_cierre) >= Ahora
    /\ FechaCelda(l.fecha_cierre) - Ahora < dias * Dia
PasaMonto(l, monto) ==
    (IF l.monto_clp = NoneNum THEN 0 ELSE l.monto_clp) >= monto

\* The row of the example: amount 50,000, closing 10 days out.
EsFilaEjemplo(l) == l.monto_clp = 50000 /\ l.fecha_cierre = Ahora + 10 * Dia

\* C18: after filter_table_view a row is shown exactly when every active
\* predicate passes, each of text, second-call-only, days and minimum amount
\* being inactive when empty, unchecked or 0; the row with amount 50,000
\* closing 10 days out is hidden under (100,000, 5), (0, 5) and (100,000, 0)
\* and shown under (0, 0).
C18_FiltrosIndependientes ==
    tabla.filtro.aplicado =>
        \A row \in DOMAIN tabla.data :
            LET l == tabla.data[row]
                f == tabla.filtro
            IN  /\ row \notin tabla.ocultas <=>
                      /\ f.text = "" \/ PasaTexto(l, f.text)
                      /\ ~f.only_2nd \/ Pasa2do(l)
                      /\ f.days_limit = 0 \/ PasaDias(l, f.days_limit)
                      /\ f.min_amount = 0 \/ PasaMonto(l, f.min_amount)
                /\ (EsFilaEjemplo(l) /\ f.text = "" /\ ~f.only_2nd) =>
                      /\ (f.min_amount = 100000 /\ f.days_limit = 5) =>
                             row \in tabla.ocultas
                      /\ (f.min_amount = 0 /\ f.days_limit = 5) =>
                             row \in tabla.ocultas
                      /\ (f.min_amount = 100000 /\ f.days_limit = 0) =>
                             row \in tabla.ocultas
                      /\ (f.min_amount = 0 /\ f.days_limit = 0) =>
                             row \notin tabla.ocultas

\* The example row is hidden by the days filter alone while a row of the
\* same table passes it.
C18_Witness ==
    /\ tabla.filtro.aplicado
    /\ tabla.filtro.min_amount = 0
    /\ tabla.filtro.days_limit = 5
    /\ \E row \in tabla.ocultas : EsFilaEjemplo(tabla.data[row])
    /\ \E row \in DOMAIN tabla.data : row \notin tabla.ocultas

\* C19: poblar_tabla appends the second-call suffix to the status cell
\* exactly when the convocation state is 2, and with the second-call-only
\* filter active filter_table_view hides every row without the suffix.
C19_Sufijo2doLlamado ==
    \A row \in DOMAIN tabla.data :
        LET l == tabla.data[row]
            estado == tabla.filas[row].estado
        IN  /\ (estado[Len(estado)] = Sufijo2do) <=> (l.estado_convocatoria = 2)
            /\ (tabla.filtro.aplicado /\ tabla.filtro.only_2nd
                  /\ estado[Len(estado)] # Sufijo2do) => row \in tabla.ocultas

\* With the second-call-only filter alone, a first call whose status text
\* names the second call is hidden and a second call is shown.
C19_Witness ==
    /\ tabla.filtro = [SinFiltro EXCEPT !.aplicado = TRUE, !.only_2nd = TRUE]
    /\ \E row \in tabla.ocultas :
          /\ tabla.data[row].estado_convocatoria = 1
          /\ tabla.data[row].estado_ca_texto = Publicada2
    /\ \E row \in DOMAIN tabla.data :
          /\ row \notin tabla.ocultas
          /\ tabla.data[row].estado_convocatoria = 2

\* C20: a tab report of scope "current", started from the export dialog with
\* the tab name the main window passes, holds one sheet with the rows of the
\* view of the page shown, in the 9 columns of the Simple schema for
\* Candidates and in the 14 columns of the detailed schema for the other
\* three pages.
C20_ExportaPestanaActual ==
    [][(/\ reporte.options.scope = "current"
        /\ \E w \in running_workers :
              /\ w.task = "generar_reporte_pestañas"
              /\ w.estado = Corriendo
              /\ w \notin running_workers') =>
          \E h \in reporte'.hojas :
              /\ reporte'.hojas = {h}
              /\ h.filas = {l.ca_id : l \in VistaDe(reporte.pestana)}
              /\ h.columnas = IF reporte.pestana = "Candidatas"
                              THEN columnas_tab_1 ELSE columnas_detalladas
              /\ Len(columnas_tab_1) = 9
              /\ Len(columnas_detalladas) = 14]_vars

\* C21: step 3 of a live-scrape run recomputes and rewrites the score only
\* of the stored rows that have no description: every row that already has
\* a description has the same puntuacion_final after the step as before it.
C21_Paso3SoloSinDescripcion ==
    [][(etl.op = "run_etl_live_to_db" /\ etl.pc = "transform") =>
          \A l \in licitaciones : l.descripcion # None =>
              \E m \in licitaciones' :
                  /\ m.ca_id = l.ca_id
                  /\ m.puntuacion_final = l.puntuacion_final]_vars

\* A step of a detail loop that merged a fiche.
FusionaFicha ==
    /\ etl.pc = "bucle"
    /\ etl'.pc = "bucle"
    /\ etl'.exitosas = etl.exitosas + 1

FilaDeCodigo(codigo_ca) == CHOOSE l \in licitaciones : l.codigo_ca = codigo_ca

\* C23: obtener_candidatas_para_fase_2 returns exactly the rows whose
\* puntuacion_final is at least 5 and whose description is null, ordered by
\* ascending closing date; so a live-scrape run never detail-scrapes a row
\* whose stored score is below 5 (negative included) or that has a
\* description.
C23_SoloCandidatas ==
    [][/\ (etl.pc = "candidatas" /\ etl'.pc = "navegador") =>
             /\ {etl'.candidatas[j] : j \in DOMAIN etl'.candidatas} =
                   {l \in licitaciones : /\ l.puntuacion_final >= 5
                                         /\ l.descripcion = None}
             /\ \A j, k \in DOMAIN etl'.candidatas : j < k =>
                   /\ etl'.candidatas[j].ca_id # etl'.candidatas[k].ca_id
                   /\ etl'.candidatas[j].fecha_cierre
                         <= etl'.candidatas[k].fecha_cierre
       /\ (etl.pc = "candidatas" /\ etl'.salida = "return") =>
             ~ \E l \in licitaciones : /\ l.puntuacion_final >= 5
                                       /\ l.descripcion = None
       /\ (/\ etl.op = "run_etl_live_to_db"
           /\ etl.pc = "bucle"
           /\ etl.i <= Len(etl.candidatas)
           /\ etl' # etl) =>
             LET l == FilaDeCodigo(etl.candidatas[etl.i].codigo_ca)
             IN  /\ l.puntuacion_final >= 5
                 /\ l.descripcion = None
                 /\ \A j \in DOMAIN etl'.pedidas :
                       etl'.pedidas[j] \in
                          {etl.candidatas[k].codigo_ca : k \in 1..etl.i}]_vars

\* A live-scrape run has scraped a candidate while the store also holds a
\* row with a negative score and a row with a description, which it did
\* not select.
C23_Witness ==
    /\ etl.op = "run_etl_live_to_db"
    /\ etl.pc = "bucle"
    /\ etl.pedidas # <<>>
    /\ \E l \in licitaciones :
          /\ l.puntuacion_final < 0
          /\ \A j \in DOMAIN etl.candidatas : etl.candidatas[j].ca_id # l.ca_id
    /\ \E l \in licitaciones :
          /\ l.descripcion # None
          /\ \A j \in DOMAIN etl.candidatas : etl.candidatas[j].ca_id # l.ca_id

\* C24: the live-scrape detail loop processes the candidates strictly in
\* the order selected (ascending closing date), each exactly once and one
\* at a time: the scrape of a candidate starts only after the one before it
\* was merged or skipped, and all scrapes use the one page of the one
\* browser.
C24_EnOrdenUnaVez ==
    [][/\ (etl'.op = "run_etl_live_to_db" /\ etl'.pc = "bucle") =>
             /\ etl'.navegador = "abierto"
             /\ etl'.paginas = 1
             /\ etl'.i \in 1..(Len(etl'.candidatas) + 1)
             /\ Len(etl'.pedidas) = etl'.i - 1
             /\ \A j \in DOMAIN etl'.pedidas :
                   etl'.pedidas[j] = etl'.candidatas[j].codigo_ca
             /\ \A j, k \in DOMAIN etl'.candidatas : j < k =>
                   /\ etl'.candidatas[j].codigo_ca # etl'.candidatas[k].codigo_ca
                   /\ etl'.candidatas[j].fecha_cierre
                         <= etl'.candidatas[k].fecha_cierre
       /\ (/\ etl.op = "run_etl_live_to_db"
           /\ etl.pc = "bucle"
           /\ etl'.pc = "bucle"
           /\ etl' # etl) =>
             /\ etl'.i = etl.i + 1
             /\ etl'.candidatas = etl.candidatas
             /\ etl'.iteracion \in {"fusionada", "sin_datos"}
       /\ (/\ etl.op = "run_etl_live_to_db"
           /\ etl.pc = "bucle"
           /\ etl'.salida = "return") =>
             Len(etl.pedidas) = Len(etl.candidatas)]_vars

\* The loop of a live-scrape run has gone through two candidates with
\* different closing dates, the earlier one first.
C24_Witness ==
    /\ etl.op = "run_etl_live_to_db"
    /\ etl.pc = "bucle"
    /\ Len(etl.candidatas) = 2
    /\ etl.candidatas[1].fecha_cierre < etl.candidatas[2].fecha_cierre
    /\ etl.pedidas = <<etl.candidatas[1].codigo_ca, etl.candidatas[2].codigo_ca>>

\* C25: in both detail loops, when the scrape of an item returns nothing
\* the stored record of that item is left unchanged and the loop goes on to
\* the next item; when the loop has gone through every item without a
\* failure the run ends normally (it reports 100% and raises nothing) and
\* the browser is closed.
C25_SinDatosContinua ==
    [][/\ (/\ etl.pc = "bucle"
           /\ etl'.pc = "bucle"
           /\ etl' # etl
           /\ etl'.iteracion = "sin_datos") =>
             /\ licitaciones' = licitaciones
             /\ seguimientos' = seguimientos
             /\ etl'.i = etl.i + 1
             /\ etl'.exitosas = etl.exitosas
             /\ etl'.pedidas = Append(etl.pedidas,
                                      etl.candidatas[etl.i].codigo_ca)
       /\ (/\ etl.pc = "bucle"
           /\ etl.i > Len(etl.candidatas)
           /\ etl' # etl) =>
             /\ etl'.pc = "fin"
             /\ etl'.salida = "return"
             /\ etl'.emitidos = <<100>>
             /\ etl'.navegador = "cerrado"
             /\ licitaciones' = licitaciones]_vars

\* A fiche refresh whose last scrape returned nothing has ended normally.
C25_Witness ==
    /\ etl.op = "run_fase2_update"
    /\ etl.pc = "fin"
    /\ etl.iteracion = "sin_datos"
    /\ etl.salida = "return"
    /\ etl.emitidos = <<100>>
    /\ etl.navegador = "cerrado"

\* C26: a fiche refresh processes each row of the union of the Relevant,
\* Favorites and Bid-submitted views at most once in a run, also when the
\* row is in several of them; a row whose fresh Phase-1 score is negative is
\* not detail-scraped, its stored record is left unchanged, and the run
\* goes on.
C26_UnaVezYNegativas ==
    [][/\ (etl.pc = "consulta" /\ etl'.pc = "navegador") =>
             /\ {etl'.candidatas[j] : j \in DOMAIN etl'.candidatas} =
                   obtener_datos_tab2_relevantes
                   \cup obtener_datos_tab3_seguimiento
                   \cup obtener_datos_tab4_ofertadas
             /\ \A j, k \in DOMAIN etl'.candidatas : j < k =>
                   etl'.candidatas[j].ca_id # etl'.candidatas[k].ca_id
       /\ (etl'.op = "run_fase2_update" /\ etl'.pc = "bucle") =>
             /\ \A j, k \in DOMAIN etl'.pedidas : j < k =>
                   etl'.pedidas[j] # etl'.pedidas[k]
             /\ Len(etl'.pedidas) <= etl'.i - 1
       /\ (/\ etl.op = "run_fase2_update"
           /\ etl.pc = "bucle"
           /\ etl.i <= Len(etl.candidatas)
           /\ etl' # etl
           /\ calcular_puntuacion_fase_1(score_engine.cargadas,
                  etl.candidatas[etl.i].codigo_ca) < 0) =>
             /\ etl'.pedidas = etl.pedidas
             /\ licitaciones' = licitaciones
             /\ seguimientos' = seguimientos
             /\ etl'.pc = "bucle"
             /\ etl'.i = etl.i + 1
             /\ etl'.salida = ""]_vars

\* A fiche refresh has skipped a row that is in the Relevant and in the
\* Favorites view and whose fresh Phase-1 score is negative.
C26_Witness ==
    /\ etl.op = "run_fase2_update"
    /\ etl.pc = "bucle"
    /\ etl.iteracion = "omitida"
    /\ etl.candidatas[etl.i - 1] \in obtener_datos_tab2_relevantes
    /\ etl.candidatas[etl.i - 1] \in obtener_datos_tab3_seguimiento
    /\ calcular_puntuacion_fase_1(score_engine.cargadas,
           etl.candidatas[etl.i - 1].codigo_ca) < 0

\* C27: a full recalculation reloads the rules of the Score Engine before
\* it computes any score; when it ends normally every stored row, scored or
\* enriched, has as puntuacion_final its Phase-1 score under the reloaded
\* rules, and its other fields and its tracking row are as before.
C27_RecalculoConReglasRecargadas ==
    [][(etl.pc = "recalculo" /\ etl'.pc = "fin" /\ etl'.salida = "return") =>
          /\ score_engine'.cargadas = score_engine.guardadas
          /\ licitaciones' =
                {[l EXCEPT !.puntuacion_final =
                      calcular_puntuacion_fase_1(score_engine.guardadas,
                                                 l.codigo_ca)] :
                    l \in licitaciones}
          /\ seguimientos' = seguimientos
          /\ <<sectores', organismos', reglas'>> = <<sectores, organismos, reglas>>]_vars

\* A full recalculation under reloaded rules r2 has ended normally on a
\* store with an enriched, tracked row, whose score is now the negative
\* Phase-1 score.
C27_Witness ==
    /\ etl.op = "run_recalculo_total_fase_1"
    /\ etl.pc = "fin"
    /\ etl.salida = "return"
    /\ score_engine.cargadas = "r2"
    /\ \E l \in licitaciones :
          /\ l.descripcion # None
          /\ l.puntuacion_final = PuntajeNegativo
          /\ \E sg \in seguimientos : sg.ca_id = l.ca_id

\* C28: when the listing scrape of a live-scrape run returns no records,
\* the run reports 100% progress and returns without raising, and without
\* any database write, rescoring or detail scrape: the store is exactly as
\* before.
C28_ListadoVacio ==
    [][(etl.pc = "extract" /\ etl' # etl) =>
          /\ etl'.pc = "load" => etl'.datos # <<>>
          /\ etl'.pc # "load" =>
                /\ etl'.pc = "fin"
                /\ etl'.salida \in {"return", "ScrapingFase1Error"}
          /\ etl'.salida = "return" =>
                /\ etl'.emitidos = <<5, 100>>
                /\ etl'.pedidas = <<>>
                /\ etl'.navegador = ""
                /\ last' = SinLlamada
          /\ <<licitaciones', seguimientos', sectores', organismos', reglas'>>
                = <<licitaciones, seguimientos, sectores, organismos, reglas>>]_vars

\* A live-scrape run over a store that holds rows has returned after an
\* empty listing.
C28_Witness ==
    /\ etl.op = "run_etl_live_to_db"
    /\ etl.pc = "fin"
    /\ etl.salida = "return"
    /\ etl.emitidos = <<5, 100>>
    /\ last = SinLlamada
    /\ \E l \in licitaciones : l.descripcion # None

\* on_settings_changed has called reload_timers_config.
LlamaReloadTimers ==
    /\ evento' # evento
    /\ evento'.op = "on_settings_changed"
    /\ evento'.res = "aplicada"

\* The timer runs with interval unidades * ms when unidades > 0, and is
\* stopped when unidades is 0.
TimerSegun(intervalo, unidades, ms) ==
    IF unidades > 0 THEN intervalo = unidades * ms ELSE intervalo = 0

C30_FalloAutomaticoSinModal ==
    [][\A w \in running_workers :
          w.on_finished = "on_auto_task_finished" =>
             /\ (/\ w.estado = ErrorPendiente
                 /\ [w EXCEPT !.estado = FinishedPendiente] \in running_workers') =>
                   dialogos' = dialogos
             /\ (/\ w.estado = FinishedPendiente
                 /\ last_error
                 /\ w \notin running_workers') =>
                   \E carga \in running_workers' \ running_workers :
                       carga.on_finished # "on_auto_task_finished"]_vars

\* The band of percent values of a step of run_etl_live_to_db: listing,
\* loading, scoring, detail loop.
BandaDePaso(pc) ==
    CASE pc = "extract"   -> 0..20
      [] pc = "load"      -> 20..30
      [] pc = "transform" -> 30..40
      [] pc = "bucle"     -> 40..95
      [] OTHER            -> {}

\* C31: during a live-scrape run every percent value reported stays within
\* the band of the step that reports it (at most 20 during listing, 20 to
\* 30 during loading, 30 to 40 during scoring, 40 to 95 during the detail
\* loop, 100 only on completion), so the reported percent never decreases
\* and always lies in 0..100.
C31_PorcentajeEnBanda ==
    [][(etl.op = "run_etl_live_to_db" /\ etl' # etl /\ etl'.op = etl.op) =>
          \A j \in DOMAIN etl'.emitidos :
              LET percent == etl'.emitidos[j]
              IN  /\ percent \in 0..100
                  /\ \A k \in DOMAIN etl'.emitidos :
                        j < k => percent <= etl'.emitidos[k]
                  /\ IF percent = 100
                     THEN /\ etl'.pc = "fin"
                          /\ etl'.salida = "return"
                          /\ j = Len(etl'.emitidos)
                     ELSE percent \in BandaDePaso(etl.pc)]_vars

\* C32: a merge of detail data for a portal code that is not stored (the
\* row was hard-deleted or removed by the retention cleanup) raises
\* nothing, creates no opportunity and leaves every table as it was.
C32_FusionDeCodigoAusente ==
    [][(/\ last'.op = "actualizar_fase_2"
        /\ ~ \E l \in licitaciones : l.codigo_ca = last'.args[1])
       => /\ ~ last'.raised
          /\ last'.res = <<FALSE>>
          /\ db' = db
          /\ seq_ca' = seq_ca]_vars

\* A merge for a code that was stored once and is no longer, while another
\* opportunity is still stored.
C32_Witness ==
    /\ last.op = "actualizar_fase_2"
    /\ last.res = <<FALSE>>
    /\ ~ last.raised
    /\ licitaciones # {}
    /\ seq_ca > Cardinality(licitaciones)
    /\ ~ \E l \in licitaciones : l.codigo_ca = last.args[1]


\* C33: after any sequence of upserts no Sector and no Organismo has an
\* empty name or a name with leading or trailing whitespace, and no two
\* Sectors and no two Organismos share a name.
NombreNormalizado(nombre) == nombre # "" /\ Strip(nombre) = nombre

C33_NombresNormalizados ==
    /\ \A sec \in sectores : NombreNormalizado(sec.nombre)
    /\ \A org \in organismos : NombreNormalizado(org.nombre)
    /\ \A s1, s2 \in sectores : s1.nombre = s2.nombre => s1 = s2
    /\ \A o1, o2 \in organismos : o1.nombre = o2.nombre => o1 = o2

\* C34: a tracking mutation (gestionar_favorito, gestionar_ofertada,
\* actualizar_nota_seguimiento), whatever its argument, called for a stored
\* opportunity that has no tracking row creates the row; and an opportunity
\* never has more than one tracking row.
C34_MutacionCreaSeguimiento ==
    [][/\ (/\ last'.op \in {"gestionar_favorito", "gestionar_ofertada",
                             "actualizar_nota"}
           /\ last' # last
           /\ ExisteCa(last'.args[1])
           /\ SeguimientoDe(last'.args[1]) = {})
          => \E seg \in seguimientos' : seg.ca_id = last'.args[1]
       /\ \A s1, s2 \in seguimientos' : s1.ca_id = s2.ca_id => s1 = s2]_vars

\* C35: after any sequence of ingestions, tracking mutations, hard deletes
\* and retention cleanups every tracking row belongs to a stored
\* opportunity: the step that removes an opportunity removes its tracking
\* row with it.
C35_SeguimientoConLicitacion ==
    \A seg \in seguimientos : ExisteCa(seg.ca_id)

\* A retention cleanup has removed an opportunity that had a tracking row
\* (ca_id 1, the note kept on it is gone) and has kept another tracked one.
C35_Witness ==
    /\ last.op = "limpiar"
    /\ last.res[1] >= 1
    /\ ~ ExisteCa(1)
    /\ seguimientos # {}

\* C36: a fiche refresh that finds no opportunity in the Relevant,
\* Favorites and Bid-submitted views returns normally: it reports 100%,
\* raises no exception, opens no browser and changes nothing in the store.
C36_SinFichasQueActualizar ==
    [][(/\ etl.op = "run_fase2_update"
        /\ etl.pc = "consulta"
        /\ etl' # etl
        /\ etl'.salida # "ScrapingFase2Error"
        /\ obtener_datos_tab2_relevantes = {}
        /\ obtener_datos_tab3_seguimiento = {}
        /\ obtener_datos_tab4_ofertadas = {})
       => /\ etl'.pc = "fin"
          /\ etl'.salida = "return"
          /\ etl'.emitidos = <<10, 100>>
          /\ etl'.navegador = ""
          /\ db' = db]_vars

\* C37: whenever at least one worker is tracked in running_workers the
\* busy flag is_task_running is true (and once every submitted task has
\* emitted its end event the flag becomes false).
C37_WorkerImplicaOcupado ==
    running_workers # {} => is_task_running

\* C38: a four-table reload always reaches its last stage: once
\* on_load_data_thread has been called, the query of the fourth table
\* (obtener_datos_tab4_ofertadas) is eventually submitted, whether or not
\* the queries of the earlier stages fail.
C38_RecargaLlegaAlFinal ==
    (evento.op = "on_load_data_thread")
        ~> (\E w \in running_workers : w.task = "obtener_datos_tab4_ofertadas")

\* C39: re-ingesting a listing record for a stored opportunity leaves its
\* identity and its detail data as they were: ca_id, code, title, amount,
\* publication date, description, requested products, delivery address,
\* second-call closing date and owning agency are unchanged, the tracking
\* rows are unchanged, and the convocation state is unchanged when the
\* record carries none (of the records of a batch with the same code only
\* the first is ingested).
C39_UpsertNoTocaFase2 ==
    [][(last'.op = "insertar_raw" /\ ~last'.raised) =>
        /\ seguimientos' = seguimientos
        /\ \A i \in 1..Len(last'.args) :
              LET item == last'.args[i]
              IN  \A o \in {l \in licitaciones : l.codigo_ca = CodigoDe(item)} :
                    \E n \in licitaciones' :
                       /\ n.ca_id = o.ca_id
                       /\ n.codigo_ca = o.codigo_ca
                       /\ n.nombre = o.nombre
                       /\ n.monto_clp = o.monto_clp
                       /\ n.fecha_publicacion = o.fecha_publicacion
                       /\ n.descripcion = o.descripcion
                       /\ n.productos_solicitados = o.productos_solicitados
                       /\ n.direccion_entrega = o.direccion_entrega
                       /\ n.fecha_cierre_segundo_llamado
                             = o.fecha_cierre_segundo_llamado
                       /\ n.organismo_id = o.organismo_id
                       /\ (/\ EsPrimero(last'.args, i)
                           /\ item.estado_convocatoria = NoneNum)
                          => n.estado_convocatoria = o.estado_convocatoria]_vars

\* The last call re-ingested, under another title and agency and with no
\* convocation state, an opportunity that is enriched (second call) and
\* tracked; the update was applied.
C39_Witness ==
    /\ last.op = "insertar_raw" /\ ~last.raised
    /\ last.res[2] = 1
    /\ last.args[1].nombre = "t1"
    /\ last.args[1].estado_convocatoria = NoneNum
    /\ \E l \in licitaciones :
          /\ l.codigo_ca = CodigoDe(last.args[1])
          /\ l.estado_ca_texto = Cerrada
          /\ l.nombre = "t2"
          /\ l.descripcion = "d"
          /\ l.productos_solicitados = "p"
          /\ l.estado_convocatoria = 2
          /\ SeguimientoDe(l.ca_id) # {}
          /\ \E org \in organismos :
                org.organismo_id = l.organismo_id /\ org.nombre = "b"

====
